---- MODULE Spec2Model ----
(***************************************************************************)
(* Model of the TLS 1.3 handshake state of Botan (Handshake_State_13_Base  *)
(* and its role-specialised wrapper Handshake_State_13): thirteen optional *)
(* message slots, the presence queries, the throwing getters, and the      *)
(* sending()/received() wrappers that dispatch into store().               *)
(***************************************************************************)
EXTENDS Integers, FiniteSets, Sequences, TLC

\* Number of distinct message contents per type that the model tells apart.
MaxMsg == 2

\* Largest number of slots populated at the same time in an explored state.
MaxStored == 2

\* Largest byte value used in seeds, matrix positions, nonces and hash input.
MaxByte == 1

\* Largest number of bytes read from one XOF stream, and the largest low
\* digit of a PRF output length.
MaxLen == 2

\* Largest number of hash objects handed out by G(), H() and KDF().
MaxObj == 2

\* Largest number of bytes fed to one hash object between two final() calls.
MaxData == 1

\* Number of distinct sessions, and of distinct session handles, offered to
\* the session manager.
MaxSession == 2

\* Largest key of the std::map handed to erase_if.
MaxKey == 3

\* Longest string handed to starts_with.
MaxStr == 3

\* Largest span, and largest distance of a size_t argument from 0 or 2^64.
MaxSize == 3

\* Deepest nesting of calls followed before the stack is taken as exhausted.
MaxDepth == 3

----------------------------------------------------------------------------
\* Message types and the variants over them

\* The alternatives of the handshake message variant that received() visits;
\* one store() overload exists for each.
Handshake_Message_13 ==
    {"Client_Hello_13", "Client_Hello_12", "Server_Hello_13", "Server_Hello_12",
     "Hello_Retry_Request", "Encrypted_Extensions", "Certificate_Request_13",
     "Certificate_13", "Certificate_Verify_13", "Finished_13"}

\* Messages a client produces.
Client_Handshake_13_Message ==
    {"Client_Hello_13", "Client_Hello_12",
     "Certificate_13", "Certificate_Verify_13", "Finished_13"}

\* Messages a server produces.
Server_Handshake_13_Message ==
    {"Server_Hello_13", "Server_Hello_12", "Hello_Retry_Request",
     "Encrypted_Extensions", "Certificate_Request_13",
     "Certificate_13", "Certificate_Verify_13", "Finished_13"}

\* Messages that may follow the handshake.
Post_Handshake_Message_13 == {"New_Session_Ticket_13", "Key_Update"}

Server_Post_Handshake_13_Message == {"New_Session_Ticket_13", "Key_Update"}

Client_Post_Handshake_13_Message == {"Key_Update"}

Connection_Side == {"Client", "Server"}

\* Template arguments of Client_Handshake_State_13 / Server_Handshake_State_13.
Outbound_Message_T(whoami) ==
    IF whoami = "Client" THEN Client_Handshake_13_Message
                         ELSE Server_Handshake_13_Message

Inbound_Message_T(whoami) ==
    IF whoami = "Client" THEN Server_Handshake_13_Message
                         ELSE Client_Handshake_13_Message

Inbound_Post_Handshake_Message_T(whoami) ==
    IF whoami = "Client" THEN Server_Post_Handshake_13_Message
                         ELSE Client_Post_Handshake_13_Message

\* std::is_constructible<Variant, MsgT>: MsgT is one of the alternatives.
is_constructible(Variant, MsgT) == MsgT \in Variant

\* is_generalizable_to<Variant>(variant<MsgTs...>): every alternative fits.
is_generalizable_to(Variant, MsgTs) ==
    \A MsgT \in MsgTs : is_constructible(Variant, MsgT)

----------------------------------------------------------------------------
\* The store: one optional per slot

nullopt == 0

Msgs == 1..MaxMsg

Optional == {nullopt} \cup Msgs

Slots ==
    {"m_client_hello", "m_client_hello_12", "m_server_hello", "m_server_hello_12",
     "m_hello_retry_request", "m_encrypted_extensions", "m_certificate_request",
     "m_server_certificate", "m_client_certificate",
     "m_server_certificate_verify", "m_client_certificate_verify",
     "m_server_finished", "m_client_finished"}

\* The slots a public getter reads (the two *_hello_12 slots have none).
Getters ==
    {"m_client_hello", "m_server_hello", "m_hello_retry_request",
     "m_encrypted_extensions", "m_certificate_request",
     "m_server_certificate", "m_client_certificate",
     "m_server_certificate_verify", "m_client_certificate_verify",
     "m_server_finished", "m_client_finished"}

VARIABLES
    m_side,   \* Connection_Side of the object, fixed at construction
    slots,    \* slot name -> Optional
    sent,     \* history: type -> content of the last successful sending()
    recvd,    \* history: type -> content of the last successful received()
    last,     \* the call the driver has just made and what it gave back;
              \* [op |-> "none"] once the driver has dealt with the result
    family,   \* "modern" or "90s": which Kyber primitives provider it is
    variant,  \* which of the two XOF interfaces in the source is built:
              \* "reference" (Botan::XOF& XOF(seed, position)) or
              \* "object" (std::unique_ptr<Kyber_XOF> XOF(seed))
    provider, \* the member objects of the Kyber primitives provider
    kxof,     \* the Kyber_XOF object the caller holds ("object" interface)
    objs,     \* the hash objects allocated by G(), H() and KDF()
    handles,  \* the pointers G(), H() and KDF() returned, in call order
    fed,      \* history: what the caller fed through each pointer since
              \* it was returned or last finalised
    deriv,    \* history: the XOF derivation in progress and what was read
    kcall,    \* the call just made on the provider and what it gave back
    sm_offered, \* history: the sessions and handles callers passed to the
                \* Session_Manager_Noop (the class itself has no member)
    sm_call,    \* the call just made on the session manager and its result
    ei_in,  \* history: the map and the predicate erase_if was called with
    ei_c,  \* the map c that erase_if works on
    ei_frame, \* the locals of erase_if (old_size, first, last), where it is, its result
    sw_args,  \* the str and what starts_with is called with
    sw_result, \* whether starts_with has returned, and what
    sp_s,  \* the span s: m_data and m_size
    sp_call, \* the subview call made on s and the span it returned
    dx_version,  \* which side of the merge conflict in the XOF function was built
    dx_xofs,  \* the XOF objects returned so far, each owned by its caller
    dx_call, \* the call in progress or just made
    pv_header,  \* which of the two copies of variant.h in the source is built
    pv_v,  \* the variant: the alternative it holds and its value
    pv_stack,  \* the frames of the helper call in progress, innermost last
    pv_call  \* the helper call made and how it ended

\* The handshake state, and the Kyber primitives provider with its callers.
hvars == <<m_side, slots, sent, recvd, last>>

kvars == <<family, variant, provider, kxof, objs, handles, fed, deriv, kcall>>

\* The Session_Manager_Noop and its callers.
mvars == <<sm_offered, sm_call>>

\* The std::map handed to erase_if and the frame of the call.
evars == <<ei_in, ei_c, ei_frame>>

\* The arguments and the result of a starts_with call.
wvars == <<sw_args, sw_result>>

\* A span and the subview call made on it.
pvars == <<sp_s, sp_call>>

\* The Dilithium provider: the XOF objects it has handed out.
dvars == <<dx_version, dx_xofs, dx_call>>

\* A Botan::variant and the helper call made on it.
avars == <<pv_header, pv_v, pv_stack, pv_call>>

\* The objects outside the handshake state and the Kyber provider.
uvars == <<mvars, evars, wvars, pvars, dvars, avars>>

\* Everything but one group of variables.
not_mvars == <<hvars, kvars, evars, wvars, pvars, dvars, avars>>

not_evars == <<hvars, kvars, mvars, wvars, pvars, dvars, avars>>

not_wvars == <<hvars, kvars, mvars, evars, pvars, dvars, avars>>

not_pvars == <<hvars, kvars, mvars, evars, wvars, dvars, avars>>

not_dvars == <<hvars, kvars, mvars, evars, wvars, pvars, avars>>

not_avars == <<hvars, kvars, mvars, evars, wvars, pvars, dvars>>

vars == <<hvars, kvars, uvars>>

\* Session_Manager_Noop(): nothing was passed to it yet.
SessionManagerUnused ==
    /\ sm_offered = [sessions |-> {}, handles |-> {}]
    /\ sm_call = [op |-> "none"]

\* No call of erase_if.
EraseIfUnused ==
    /\ ei_in = [c |-> <<>>, pred |-> {}]
    /\ ei_c = <<>>
    /\ ei_frame = [pc |-> "none"]

\* No call of starts_with.
StartsWithUnused ==
    /\ sw_args = [str |-> <<>>, what |-> <<>>]
    /\ sw_result = [pc |-> "none"]

\* No span.
SpanUnused ==
    /\ sp_s = [m_data |-> <<>>, m_size |-> 0]
    /\ sp_call = [op |-> "none"]

\* No Dilithium provider.
DilithiumUnused ==
    /\ dx_version = "HEAD"
    /\ dx_xofs = <<>>
    /\ dx_call = [op |-> "none"]

\* No variant.
VariantUnused ==
    /\ pv_header = "variant.h"
    /\ pv_v = [type |-> "A", value |-> 0]
    /\ pv_stack = <<>>
    /\ pv_call = [op |-> "none"]

UtilitiesUnused ==
    /\ SessionManagerUnused
    /\ EraseIfUnused
    /\ StartsWithUnused
    /\ SpanUnused
    /\ DilithiumUnused
    /\ VariantUnused

has_value(opt) == opt # nullopt

get_default(opt) == [outcome |-> "ok", value |-> opt]

\* Handshake_State_13_Base::get: throws on an empty optional.
get(opt) ==
    IF ~has_value(opt)
    THEN [outcome |-> "Invalid_State"]
    ELSE [outcome |-> "ok", value |-> opt]

has_client_hello == has_value(slots["m_client_hello"])
has_server_hello == has_value(slots["m_server_hello"])
has_server_certificate_chain_swapped == has_value(slots["m_client_certificate"])
has_server_certificate_chain == has_value(slots["m_server_certificate"])
has_client_certificate_chain == has_value(slots["m_client_certificate"])
has_hello_retry_request == has_value(slots["m_hello_retry_request"])
has_certificate_request == has_value(slots["m_certificate_request"])
has_server_finished == has_value(slots["m_server_finished"])
has_client_finished == has_value(slots["m_client_finished"])

\* The slots a has_*() presence query reads.
HasQueries ==
    {"m_client_hello", "m_server_hello",
     "m_server_certificate", "m_client_certificate",
     "m_hello_retry_request", "m_certificate_request",
     "m_server_finished", "m_client_finished"}

\* The has_*() member that reads slot s.
has_query(s) ==
    CASE s = "m_client_hello" -> has_client_hello
      [] s = "m_server_hello" -> has_server_hello
      [] s = "m_server_certificate" -> has_server_certificate_chain
      [] s = "m_client_certificate" -> has_client_certificate_chain
      [] s = "m_hello_retry_request" -> has_hello_retry_request
      [] s = "m_certificate_request" -> has_certificate_request
      [] s = "m_server_finished" -> has_server_finished
      [] s = "m_client_finished" -> has_client_finished

\* Constness of what a getter returns: only client_hello() has an overload
\* returning a non-const reference.
getter_is_mutable(s) == s = "m_client_hello"

\* sending() and received() wrap store()'s result as
\* std::reference_wrapper<MsgT> with MsgT the non-const type of the by-value
\* parameter: the reference is not const, whatever the type.
wrapper_is_mutable(MsgT) == TRUE

handshake_finished_either == has_server_finished \/ has_client_finished

handshake_finished == has_server_finished /\ has_client_finished

\* The slot a store() overload assigns: fixed by the type, and for the three
\* types both sides produce also by who produced the message.
TargetSlot(side, MsgT, from_peer) ==
    CASE MsgT = "Client_Hello_13" -> "m_client_hello"
      [] MsgT = "Client_Hello_12" -> "m_client_hello_12"
      [] MsgT = "Server_Hello_13" -> "m_server_hello"
      [] MsgT = "Server_Hello_12" -> "m_server_hello_12"
      [] MsgT = "Hello_Retry_Request" -> "m_hello_retry_request"
      [] MsgT = "Encrypted_Extensions" -> "m_encrypted_extensions"
      [] MsgT = "Certificate_Request_13" -> "m_certificate_request"
      [] MsgT = "Certificate_13" ->
            IF (side = "Client") = from_peer THEN "m_server_certificate"
                                             ELSE "m_client_certificate"
      [] MsgT = "Certificate_Verify_13" ->
            IF (side = "Client") = from_peer THEN "m_server_certificate_verify"
                                             ELSE "m_client_certificate_verify"
      [] MsgT = "Finished_13" ->
            IF (side = "Client") = from_peer THEN "m_server_finished"
                                             ELSE "m_client_finished"

store_keep_first(st, side, MsgT, msg, from_peer) ==
    LET target == TargetSlot(side, MsgT, from_peer)
    IN  [st  |-> IF has_value(st[target]) THEN st
                 ELSE [st EXCEPT ![target] = msg],
         ref |-> target]

store_reset_hello(st, side, MsgT, msg, from_peer) ==
    LET target == TargetSlot(side, MsgT, from_peer)
    IN  [st  |-> IF MsgT = "Hello_Retry_Request"
                 THEN [st EXCEPT ![target] = msg, !["m_client_hello"] = nullopt]
                 ELSE [st EXCEPT ![target] = msg],
         ref |-> target]

\* store(message, from_peer): assigns the message to its slot and returns a
\* reference to the slot.
store(st, side, MsgT, msg, from_peer) ==
    LET target == TargetSlot(side, MsgT, from_peer)
    IN  [st |-> [st EXCEPT ![target] = msg], ref |-> target]

----------------------------------------------------------------------------
\* Handshake_State_13: sending() and received()

sending_compiles_any(side, MsgT) == TRUE

\* The static_assert of sending(MsgT): calls with other types do not build.
sending_compiles(side, MsgT) ==
    is_constructible(Outbound_Message_T(side), MsgT)

\* The static_assert of sending(variant<MsgTs...>).
sending_variant_compiles(side, MsgTs) ==
    is_generalizable_to(Outbound_Message_T(side), MsgTs)

sending_ref_to_argument(st, side, MsgT, msg) ==
    LET r == store(st, side, MsgT, msg, FALSE)
    IN  [outcome |-> "ok", st |-> r.st, ref |-> "msg"]

sending_as_peer(st, side, MsgT, msg) ==
    LET r == store(st, side, MsgT, msg, TRUE)
    IN  [outcome |-> "ok", st |-> r.st, ref |-> r.ref]

\* sending(MsgT msg): store(std::move(msg), false), wrapped as a reference.
sending(st, side, MsgT, msg) ==
    LET r == store(st, side, MsgT, msg, FALSE)
    IN  [outcome |-> "ok", st |-> r.st, ref |-> r.ref]

received_as_local(st, side, MsgT, msg) ==
    IF is_constructible(Inbound_Message_T(side), MsgT)
    THEN LET r == store(st, side, MsgT, msg, FALSE)
         IN  [outcome |-> "ok", st |-> r.st, ref |-> r.ref]
    ELSE [outcome |-> "UnexpectedMessage", st |-> st]

received_unchecked(st, side, MsgT, msg) ==
    LET r == store(st, side, MsgT, msg, TRUE)
    IN  [outcome |-> "ok", st |-> r.st, ref |-> r.ref]

received_store_then_throw(st, side, MsgT, msg) ==
    LET r == store(st, side, MsgT, msg, TRUE)
    IN  IF is_constructible(Inbound_Message_T(side), MsgT)
        THEN [outcome |-> "ok", st |-> r.st, ref |-> r.ref]
        ELSE [outcome |-> "UnexpectedMessage", st |-> r.st]

received_reset_on_error(st, side, MsgT, msg) ==
    IF is_constructible(Inbound_Message_T(side), MsgT)
    THEN LET r == store(st, side, MsgT, msg, TRUE)
         IN  [outcome |-> "ok", st |-> r.st, ref |-> r.ref]
    ELSE [outcome |-> "UnexpectedMessage", st |-> [s \in DOMAIN st |-> nullopt]]

received_ordered(st, side, MsgT, msg) ==
    IF /\ is_constructible(Inbound_Message_T(side), MsgT)
       /\ MsgT = "Finished_13" =>
             (has_value(st["m_client_hello"]) /\ has_value(st["m_server_hello"]))
    THEN LET r == store(st, side, MsgT, msg, TRUE)
         IN  [outcome |-> "ok", st |-> r.st, ref |-> r.ref]
    ELSE [outcome |-> "UnexpectedMessage", st |-> st]

\* received(Handshake_Message_13): visits the held alternative; stores it
\* with from_peer = true when the inbound variant can hold it, else throws
\* TLS_Exception(AlertType::UnexpectedMessage).
received(st, side, MsgT, msg) ==
    IF is_constructible(Inbound_Message_T(side), MsgT)
    THEN LET r == store(st, side, MsgT, msg, TRUE)
         IN  [outcome |-> "ok", st |-> r.st, ref |-> r.ref]
    ELSE [outcome |-> "UnexpectedMessage", st |-> st]

received_post_recorded(st, side, MsgT, msg) ==
    IF is_constructible(Inbound_Post_Handshake_Message_T(side), MsgT)
    THEN [outcome |-> "ok",
          st |-> [st EXCEPT !["m_client_finished"] = msg], value |-> msg]
    ELSE [outcome |-> "UnexpectedMessage", st |-> st]

received_post_when_finished(st, side, MsgT, msg) ==
    IF /\ is_constructible(Inbound_Post_Handshake_Message_T(side), MsgT)
       /\ has_value(st["m_server_finished"])
       /\ has_value(st["m_client_finished"])
    THEN [outcome |-> "ok", st |-> st, value |-> msg]
    ELSE [outcome |-> "UnexpectedMessage", st |-> st]

\* received(Post_Handshake_Message_13): hands the message back or throws;
\* the store is not involved.
received_post(st, side, MsgT, msg) ==
    IF is_constructible(Inbound_Post_Handshake_Message_T(side), MsgT)
    THEN [outcome |-> "ok", st |-> st, value |-> msg]
    ELSE [outcome |-> "UnexpectedMessage", st |-> st]

----------------------------------------------------------------------------
\* The state machine

Stored(st) == {s \in Slots : has_value(st[s])}

WithinBound(st) == Cardinality(Stored(st)) <= MaxStored

\* The variant types a caller passes to sending(variant<MsgTs...>).
SentVariants ==
    {Client_Handshake_13_Message, Server_Handshake_13_Message,
     {"Hello_Retry_Request", "Server_Hello_13", "Server_Hello_12"},
     {"Client_Hello_13", "Client_Hello_12"}}

----------------------------------------------------------------------------
\* Kyber symmetric primitives: the byte-stream primitives they are built on

\* Byte i (counted from 1) of the output of primitive `alg` on the absorbed
\* or keyed material: the primitives are deterministic functions of their
\* input and nothing else.
KeystreamByte(alg, material, i) == <<alg, material, i>>

\* n output bytes following the first `from` bytes of the stream.
Keystream(alg, material, from, n) ==
    [i \in 1..n |-> KeystreamByte(alg, material, from + i)]

Zeros(n) == [i \in 1..n |-> 0]

\* Botan::XOF::create_or_throw(name): nothing absorbed, nothing produced.
XOF_create(name) == [alg |-> name, input |-> <<>>, pos |-> 0]

\* XOF::clear(): back to the state after construction.
XOF_clear(x) == XOF_create(x.alg)

\* XOF::update() is accepted (no Invalid_State) while no output was taken.
XOF_accepts_input(x) == x.pos = 0

XOF_update(x, bytes) == [x EXCEPT !.input = @ \o bytes]

\* XOF::output(n): the next n bytes of the stream.
XOF_output(x, n) ==
    [outcome |-> "ok",
     out |-> Keystream(x.alg, x.input, x.pos, n),
     obj |-> [x EXCEPT !.pos = @ + n]]

\* The IV handed to AES-256/CTR is a std::array<uint8_t, 12>.
IvLen == 12

\* AES_256_CTR_XOF(): no key, no IV.
AES_256_CTR_XOF_create ==
    [alg |-> "AES-256/CTR", started |-> FALSE, key |-> <<>>, iv |-> <<>>,
     pos |-> 0]

AES_256_CTR_XOF_clear(x) == AES_256_CTR_XOF_create

\* AES_256_CTR_XOF::start(iv, key): keys the cipher and starts the stream;
\* refused (Invalid_State) on an object that is already started.
AES_256_CTR_XOF_start(x, iv, key) ==
    [x EXCEPT !.started = TRUE, !.key = key, !.iv = iv, !.pos = 0]

AES_256_CTR_XOF_output(x, n) ==
    [outcome |-> "ok",
     out |-> Keystream(x.alg, x.key \o x.iv, x.pos, n),
     obj |-> [x EXCEPT !.pos = @ + n]]

\* A StreamCipher as the Kyber_XOF classes hold it: SHAKE_128_Cipher, or
\* CTR-BE(AES-256).
StreamCipher_create(name) ==
    [alg |-> name, keyed |-> FALSE, key |-> <<>>, iv |-> <<>>, pos |-> 0]

\* StreamCipher::set_key(): new key, the stream restarts; CTR-BE falls back
\* to the all-zero IV, SHAKE_128_Cipher takes no IV.
StreamCipher_set_key(c, key) ==
    [c EXCEPT !.keyed = TRUE, !.key = key, !.pos = 0,
              !.iv = IF c.alg = "AES-256/CTR" THEN Zeros(IvLen) ELSE <<>>]

\* StreamCipher::set_iv(): new IV under the same key, the stream restarts.
StreamCipher_set_iv(c, iv) == [c EXCEPT !.iv = iv, !.pos = 0]

\* StreamCipher::write_keystream(): Key_Not_Set (an Invalid_State) before
\* set_key, else the next n bytes.
StreamCipher_write_keystream(c, n) ==
    IF ~c.keyed
    THEN [outcome |-> "Invalid_State", out |-> <<>>, obj |-> c]
    ELSE [outcome |-> "ok",
          out |-> Keystream(c.alg, c.key \o c.iv, c.pos, n),
          obj |-> [c EXCEPT !.pos = @ + n]]

\* SHAKE_256(output_bits): the hash object PRF builds locally.
SHAKE_256(output_bits) ==
    [alg |-> "SHAKE-256", output_bits |-> output_bits, input |-> <<>>]

SHAKE_256_update(h, bytes) == [h EXCEPT !.input = @ \o bytes]

\* final(): output_bits / 8 bytes.
SHAKE_256_final(h) == Keystream(h.alg, h.input, 0, h.output_bits \div 8)

\* A size_t value v, held as the two digits of v = hi * 2^61 + lo
\* (0 <= hi < 8, 0 <= lo < 2^61), so that the 64-bit wrap of outlen * 8 can
\* be computed: (hi * 2^61 + lo) * 8 mod 2^64 = lo * 8 mod 2^64, and that is
\* lo * 8 for the small lo used here.
size_t(hi, lo) == [hi |-> hi, lo |-> lo]

size_t_times_8(v) == v.lo * 8

----------------------------------------------------------------------------
\* Kyber_Modern_Symmetric_Primitives

\* XOF(seed, matrix_position) returning Botan::XOF&: the provider's one
\* SHAKE-128 object, cleared and fed seed, row, column.
Kyber_Modern_Symmetric_Primitives_XOF_no_clear(m_shake128, seed, matrix_position) ==
    IF ~XOF_accepts_input(m_shake128)
    THEN [outcome |-> "Invalid_State", obj |-> m_shake128]
    ELSE [outcome |-> "ok",
          obj |-> XOF_update(XOF_update(m_shake128, seed),
                             <<matrix_position[1], matrix_position[2]>>)]

Kyber_Modern_Symmetric_Primitives_XOF_continues(m_shake128, seed, mpos) ==
    IF m_shake128.pos > 0
    THEN [outcome |-> "ok", obj |-> m_shake128]
    ELSE [outcome |-> "ok",
          obj |-> XOF_update(XOF_update(XOF_clear(m_shake128), seed),
                             <<mpos[1], mpos[2]>>)]

Kyber_Modern_Symmetric_Primitives_XOF(m_shake128, seed, matrix_position) ==
    LET cleared == XOF_clear(m_shake128)
        matrix_position_buffer == <<matrix_position[1], matrix_position[2]>>
    IN  IF ~XOF_accepts_input(cleared)
        THEN [outcome |-> "Invalid_State", obj |-> cleared]
        ELSE [outcome |-> "ok",
              obj |-> XOF_update(XOF_update(cleared, seed),
                                 matrix_position_buffer)]

\* Kyber_Modern_XOF(seed): a new SHAKE_128_Cipher, m_key = seed, 0, 0.
Kyber_Modern_XOF(seed) ==
    [m_cipher |-> StreamCipher_create("SHAKE-128"),
     m_key |-> seed \o <<0, 0>>]

\* set_position(): row and column into the last two bytes of m_key, then
\* set_key(m_key).
Kyber_Modern_XOF_set_position(x, matrix_position) ==
    LET m_key == [x.m_key EXCEPT ![Len(x.m_key) - 1] = matrix_position[1],
                                 ![Len(x.m_key)] = matrix_position[2]]
    IN  [m_cipher |-> StreamCipher_set_key(x.m_cipher, m_key),
         m_key |-> m_key]

Kyber_Modern_XOF_write_output(x, n) ==
    LET r == StreamCipher_write_keystream(x.m_cipher, n)
    IN  [outcome |-> r.outcome, out |-> r.out,
         obj |-> [x EXCEPT !.m_cipher = r.obj]]

\* PRF(seed, nonce, outlen): SHAKE_256 kdf(outlen * 8), fed seed and nonce.
Kyber_Modern_Symmetric_Primitives_PRF(seed, nonce, outlen) ==
    LET kdf == SHAKE_256(size_t_times_8(outlen))
    IN  [outcome |-> "ok",
         out |-> SHAKE_256_final(
                     SHAKE_256_update(SHAKE_256_update(kdf, seed),
                                      <<nonce>>))]

----------------------------------------------------------------------------
\* Kyber_90s_Symmetric_Primitives

\* XOF(seed, mpos) returning Botan::XOF&: the provider's m_aes256_ctr_xof,
\* cleared and started with the IV row, column, 0, ... and the seed as key.
Kyber_90s_Symmetric_Primitives_XOF_no_clear(m_aes256_ctr_xof, seed, mpos) ==
    LET iv == <<mpos[1], mpos[2]>> \o Zeros(IvLen - 2)
    IN  IF m_aes256_ctr_xof.started
        THEN [outcome |-> "Invalid_State", obj |-> m_aes256_ctr_xof]
        ELSE [outcome |-> "ok",
              obj |-> AES_256_CTR_XOF_start(m_aes256_ctr_xof, iv, seed)]

Kyber_90s_Symmetric_Primitives_XOF(m_aes256_ctr_xof, seed, mpos) ==
    LET cleared == AES_256_CTR_XOF_clear(m_aes256_ctr_xof)
        iv == <<mpos[1], mpos[2]>> \o Zeros(IvLen - 2)
    IN  IF cleared.started
        THEN [outcome |-> "Invalid_State", obj |-> cleared]
        ELSE [outcome |-> "ok",
              obj |-> AES_256_CTR_XOF_start(cleared, iv, seed)]

\* Kyber_90s_XOF(cipher, seed): a new CTR-BE(AES-256) object keyed with seed.
Kyber_90s_XOF(seed) ==
    [m_cipher |-> StreamCipher_set_key(StreamCipher_create("AES-256/CTR"),
                                       seed)]

\* XOF(seed) returning std::unique_ptr<Kyber_XOF>: the cipher of the new
\* Kyber_90s_XOF is m_aes256_ctr->new_object(), and the provider p has no
\* member of that name, so the function is ill-formed and no build has it.
Kyber_90s_Symmetric_Primitives_XOF_object(p, seed) ==
    IF "m_aes256_ctr" \in DOMAIN p
    THEN [outcome |-> "ok", obj |-> Kyber_90s_XOF(seed)]
    ELSE [outcome |-> "ill_formed"]

\* set_position(): set_iv(row, column, 0, ...).
Kyber_90s_XOF_set_position(x, matrix_position) ==
    LET iv == <<matrix_position[1], matrix_position[2]>> \o Zeros(IvLen - 2)
    IN  [m_cipher |-> StreamCipher_set_iv(x.m_cipher, iv)]

Kyber_90s_XOF_write_output(x, n) ==
    LET r == StreamCipher_write_keystream(x.m_cipher, n)
    IN  [outcome |-> r.outcome, out |-> r.out,
         obj |-> [x EXCEPT !.m_cipher = r.obj]]

\* PRF(seed, nonce, outlen): m_aes256_ctr_prf cleared, started with the IV
\* nonce, 0, ... and the seed as key, then output(outlen).  A buffer of 2^61
\* bytes or more cannot be allocated.
Kyber_90s_Symmetric_Primitives_PRF(m_aes256_ctr_prf, seed, nonce, outlen) ==
    LET cleared == AES_256_CTR_XOF_clear(m_aes256_ctr_prf)
        nonce_buffer == <<nonce>> \o Zeros(IvLen - 1)
    IN  IF cleared.started
        THEN [outcome |-> "Invalid_State", out |-> <<>>, obj |-> cleared]
        ELSE LET started == AES_256_CTR_XOF_start(cleared, nonce_buffer, seed)
             IN  IF outlen.hi > 0
                 THEN [outcome |-> "bad_alloc", out |-> <<>>, obj |-> started]
                 ELSE AES_256_CTR_XOF_output(started, outlen.lo)

----------------------------------------------------------------------------
\* Hash objects and the providers' G(), H(), KDF()

\* HashFunction::create_or_throw(name): nothing absorbed.
HashFunction_create(name) == [alg |-> name, data |-> <<>>]

\* HashFunction::new_object(): a new object of the same algorithm in its
\* initial state, owned by the caller.
HashFunction_new_object(h) == HashFunction_create(h.alg)

HashFunction_update(h, bytes) == [h EXCEPT !.data = @ \o bytes]

\* HashFunction::final(): the digest of what was fed; the object is reset.
HashFunction_final(h) ==
    [digest |-> <<h.alg, h.data>>, obj |-> HashFunction_create(h.alg)]

\* Kyber_Modern_Symmetric_Primitives(): the four member objects.
Kyber_Modern_Symmetric_Primitives ==
    [m_sha3_512 |-> HashFunction_create("SHA-3(512)"),
     m_sha3_256 |-> HashFunction_create("SHA-3(256)"),
     m_shake256_256 |-> HashFunction_create("SHAKE-256(256)"),
     m_shake128 |-> XOF_create("SHAKE-128")]

\* Kyber_90s_Symmetric_Primitives(): the four member objects.
Kyber_90s_Symmetric_Primitives ==
    [m_sha512 |-> HashFunction_create("SHA-512"),
     m_sha256 |-> HashFunction_create("SHA-256"),
     m_aes256_ctr_xof |-> AES_256_CTR_XOF_create,
     m_aes256_ctr_prf |-> AES_256_CTR_XOF_create]

\* Where a std::unique_ptr<HashFunction> points: at a member object of the
\* provider, or at the k-th object allocated for a caller.
MemberPtr(name) == [region |-> "provider", member |-> name, at |-> 0]

HeapPtr(k) == [region |-> "heap", member |-> "", at |-> k]

\* The result of handing out new_object() of a member: one more object on
\* the heap, and the pointer to it.
Allocated(heap, h) ==
    [objs |-> Append(heap, h), ptr |-> HeapPtr(Len(heap) + 1)]

Kyber_Modern_G_shares_member(p, heap) ==
    [objs |-> heap, ptr |-> MemberPtr("m_sha3_512")]

Kyber_Modern_G(p, heap) ==
    Allocated(heap, HashFunction_new_object(p.m_sha3_512))

Kyber_Modern_H(p, heap) ==
    Allocated(heap, HashFunction_new_object(p.m_sha3_256))

Kyber_Modern_KDF(p, heap) ==
    Allocated(heap, HashFunction_new_object(p.m_shake256_256))

Kyber_90s_G(p, heap) ==
    Allocated(heap, HashFunction_new_object(p.m_sha512))

Kyber_90s_H(p, heap) ==
    Allocated(heap, HashFunction_new_object(p.m_sha256))

Kyber_90s_KDF(p, heap) ==
    Allocated(heap, HashFunction_new_object(p.m_sha256))

----------------------------------------------------------------------------
\* The provider as constructed and not yet called.
ProviderUnused(f) ==
    /\ family = f
    /\ provider = IF f = "modern" THEN Kyber_Modern_Symmetric_Primitives
                                  ELSE Kyber_90s_Symmetric_Primitives
    /\ kxof = [held |-> FALSE]
    /\ objs = <<>>
    /\ handles = <<>>
    /\ fed = <<>>
    /\ deriv = [active |-> FALSE, old |-> [some |-> FALSE]]
    /\ kcall = [op |-> "none"]

----------------------------------------------------------------------------
\* The handshake state object and its driver

\* Handshake_State_13(): Handshake_State_13_Base(whoami), every slot empty.
Init ==
    /\ m_side \in Connection_Side
    /\ slots = [s \in Slots |-> nullopt]
    /\ sent = [t \in Handshake_Message_13 |-> nullopt]
    /\ recvd = [t \in Handshake_Message_13 |-> nullopt]
    /\ last = [op |-> "none"]
    /\ variant = "reference"
    /\ ProviderUnused("modern")
    /\ UtilitiesUnused

\* What a completed store call leaves in `last`: the call, its result, and
\* the content the referenced slot had before the call.
CallRecord(op, MsgT, msg, r) ==
    IF r.outcome = "ok"
    THEN [op |-> op, type |-> MsgT, msg |-> msg, outcome |-> "ok",
          ref |-> r.ref, mutable |-> wrapper_is_mutable(MsgT),
          prior |-> IF r.ref \in Slots THEN slots[r.ref] ELSE nullopt]
    ELSE [op |-> op, type |-> MsgT, msg |-> msg, outcome |-> r.outcome]

\* The connection driver is single-threaded: it makes one call at a time
\* and deals with the result (or the exception) before the next call.
Idle == last.op = "none"

Sending(MsgT, msg) ==
    /\ sending_compiles(m_side, MsgT)
    /\ LET r == sending(slots, m_side, MsgT, msg)
       IN  /\ WithinBound(r.st)
           /\ slots' = r.st
           /\ sent' = [sent EXCEPT ![MsgT] = msg]
           /\ last' = CallRecord("sending", MsgT, msg, r)
    /\ UNCHANGED <<m_side, recvd, kvars, uvars>>

\* sending(variant<MsgTs...>): visits the held alternative and forwards it
\* to sending(MsgT).
SendingVariant(MsgTs, MsgT, msg) ==
    /\ sending_variant_compiles(m_side, MsgTs)
    /\ MsgT \in MsgTs
    /\ Sending(MsgT, msg)

Received(MsgT, msg) ==
    /\ LET r == received(slots, m_side, MsgT, msg)
       IN  /\ WithinBound(r.st)
           /\ slots' = r.st
           /\ recvd' = IF r.outcome = "ok" THEN [recvd EXCEPT ![MsgT] = msg]
                                           ELSE recvd
           /\ last' = CallRecord("received", MsgT, msg, r)
    /\ UNCHANGED <<m_side, sent, kvars, uvars>>

ReceivedPost(MsgT, msg) ==
    /\ LET r == received_post(slots, m_side, MsgT, msg)
       IN  /\ slots' = r.st
           /\ last' = IF r.outcome = "ok"
                      THEN [op |-> "received_post", type |-> MsgT, msg |-> msg,
                            outcome |-> "ok", value |-> r.value]
                      ELSE [op |-> "received_post", type |-> MsgT, msg |-> msg,
                            outcome |-> r.outcome]
    /\ UNCHANGED <<m_side, sent, recvd, kvars, uvars>>

\* One of the getters client_hello() .. client_finished().
Getter(s) ==
    /\ LET r == get(slots[s])
       IN  last' = IF r.outcome = "ok"
                   THEN [op |-> "get", slot |-> s, outcome |-> "ok",
                         value |-> r.value, mutable |-> getter_is_mutable(s)]
                   ELSE [op |-> "get", slot |-> s, outcome |-> r.outcome]
    /\ UNCHANGED <<m_side, slots, sent, recvd, kvars, uvars>>

\* One of the presence queries has_client_hello() .. has_client_finished().
HasQuery(s) ==
    /\ last' = [op |-> "has", slot |-> s, value |-> has_query(s)]
    /\ UNCHANGED <<m_side, slots, sent, recvd, kvars, uvars>>

\* The driver is done with the result of its last call.
Return ==
    /\ ~Idle
    /\ last' = [op |-> "none"]
    /\ UNCHANGED <<m_side, slots, sent, recvd, kvars, uvars>>

\* Any call on the object, with any argument, whenever the driver is idle.
Next ==
    \/ Idle /\ \E MsgT \in Handshake_Message_13, msg \in Msgs :
                  Sending(MsgT, msg)
    \/ Idle /\ \E MsgTs \in SentVariants, MsgT \in Handshake_Message_13,
                    msg \in Msgs : SendingVariant(MsgTs, MsgT, msg)
    \/ Idle /\ \E MsgT \in Handshake_Message_13, msg \in Msgs :
                  Received(MsgT, msg)
    \/ Idle /\ \E MsgT \in Post_Handshake_Message_13, msg \in Msgs :
                  ReceivedPost(MsgT, msg)
    \/ Idle /\ \E s \in Getters : Getter(s)
    \/ Idle /\ \E s \in HasQueries : HasQuery(s)
    \/ Return

Spec == Init /\ [][Next]_vars

----------------------------------------------------------------------------
\* Properties of the handshake state

StoreCall == last.op \in {"sending", "received"} /\ last.outcome = "ok"

\* C1: in every reachable state of a Client-role or Server-role object,
\* handshake_finished() equals has_client_finished() && has_server_finished(),
\* i.e. it is true exactly when both Finished slots are set; it is false on
\* the fresh object and stays false until then.
C1_FinishedIffBothSlots ==
    /\ handshake_finished = (has_client_finished /\ has_server_finished)
    /\ handshake_finished = (/\ slots["m_client_finished"] # nullopt
                             /\ slots["m_server_finished"] # nullopt)

C1_Witness ==
    /\ handshake_finished
    /\ slots["m_client_finished"] # nullopt
    /\ slots["m_server_finished"] # nullopt

\* C2: handshake_finished() is true exactly when a Finished has been sent and
\* a Finished has been received on this object; with only one of the two,
\* however often repeated, it is false. Both roles.
C2_FinishedIffSentAndReceived ==
    handshake_finished = (/\ sent["Finished_13"] # nullopt
                          /\ recvd["Finished_13"] # nullopt)

C2_Witness ==
    /\ last.op = "sending" /\ last.outcome = "ok"
    /\ last.type = "Finished_13"
    /\ last.prior # nullopt
    /\ recvd["Finished_13"] = nullopt
    /\ ~handshake_finished

\* C3: a getter called on an unset slot fails with Invalid_State and gives
\* no value, a getter called on a set slot gives the stored message, and in
\* both cases no slot changes.
C3_GetterThrowsOnUnset ==
    [][last'.op = "get" =>
          /\ slots' = slots
          /\ last'.slot \in Getters
          /\ slots[last'.slot] = nullopt =>
                last' = [op |-> "get", slot |-> last'.slot,
                         outcome |-> "Invalid_State"]
          /\ slots[last'.slot] # nullopt =>
                /\ last'.outcome = "ok"
                /\ last'.value = slots[last'.slot]]_vars

C3_Witness ==
    /\ last.op = "get" /\ last.outcome = "Invalid_State"
    /\ slots[last.slot] = nullopt
    /\ Stored(slots) # {}

\* C4: received(Handshake_Message_13) succeeds exactly for the types the
\* role's inbound variant holds (the server's messages on a client, the
\* client's on a server) and otherwise fails with the unexpected_message
\* alert; a server fed a CertificateRequest and a client fed a ClientHello
\* both fail.
C4_ReceivedRejectsIllegalType ==
    last.op = "received" =>
       LET inbound == IF m_side = "Client" THEN Server_Handshake_13_Message
                                            ELSE Client_Handshake_13_Message
       IN  /\ last.type \in inbound => last.outcome = "ok"
           /\ last.type \notin inbound => last.outcome = "UnexpectedMessage"
           /\ (m_side = "Server" /\ last.type = "Certificate_Request_13")
                 => last.outcome = "UnexpectedMessage"
           /\ (m_side = "Client" /\ last.type \in {"Client_Hello_13", "Client_Hello_12"})
                 => last.outcome = "UnexpectedMessage"

C4_Witness ==
    /\ last.op = "received" /\ last.outcome = "UnexpectedMessage"
    /\ m_side = "Server" /\ last.type = "Certificate_Request_13"

\* C5: a received() that fails with unexpected_message changes nothing: every
\* slot, every has_X() and handshake_finished() are as before the call.
C5_FailedReceivedChangesNothing ==
    [][(last'.op = "received" /\ last'.outcome = "UnexpectedMessage") =>
          /\ slots' = slots
          /\ has_client_hello' = has_client_hello
          /\ has_server_hello' = has_server_hello
          /\ has_server_certificate_chain' = has_server_certificate_chain
          /\ has_client_certificate_chain' = has_client_certificate_chain
          /\ has_hello_retry_request' = has_hello_retry_request
          /\ has_certificate_request' = has_certificate_request
          /\ has_server_finished' = has_server_finished
          /\ has_client_finished' = has_client_finished
          /\ handshake_finished' = handshake_finished]_vars

C5_Witness ==
    /\ last.op = "received" /\ last.outcome = "UnexpectedMessage"
    /\ Stored(slots) # {}

\* C6: a second message of the same type and direction overwrites the first:
\* the call succeeds, and the slot then holds the second message, which is
\* what the getter returns.
C6_SecondStoreOverwrites ==
    /\ last.op = "sending" => last.outcome = "ok"
    /\ (StoreCall /\ last.prior # nullopt) =>
          /\ slots[last.ref] = last.msg
          /\ get(slots[last.ref]) = [outcome |-> "ok", value |-> last.msg]

C6_Witness ==
    /\ StoreCall
    /\ last.prior # nullopt /\ last.prior # last.msg
    /\ slots[last.ref] = last.msg

\* C7: Certificate, CertificateVerify and Finished are kept per producer: on
\* a client the client_* slot holds what was last sent and the server_* slot
\* what was last received, on a server the reverse; a message of one
\* direction never sets or overwrites the slot of the other.
C7_SlotByRoleAndDirection ==
    LET mine == sent
        peer == recvd
        client_slot == [t \in {"Certificate_13", "Certificate_Verify_13", "Finished_13"} |->
            CASE t = "Certificate_13" -> "m_client_certificate"
              [] t = "Certificate_Verify_13" -> "m_client_certificate_verify"
              [] t = "Finished_13" -> "m_client_finished"]
        server_slot == [t \in {"Certificate_13", "Certificate_Verify_13", "Finished_13"} |->
            CASE t = "Certificate_13" -> "m_server_certificate"
              [] t = "Certificate_Verify_13" -> "m_server_certificate_verify"
              [] t = "Finished_13" -> "m_server_finished"]
    IN  \A t \in {"Certificate_13", "Certificate_Verify_13", "Finished_13"} :
           IF m_side = "Client"
           THEN /\ slots[client_slot[t]] = mine[t]
                /\ slots[server_slot[t]] = peer[t]
           ELSE /\ slots[server_slot[t]] = mine[t]
                /\ slots[client_slot[t]] = peer[t]

C7_Witness ==
    /\ sent["Certificate_13"] # nullopt
    /\ recvd["Certificate_13"] # nullopt
    /\ sent["Certificate_13"] # recvd["Certificate_13"]
    /\ slots["m_client_certificate"] # slots["m_server_certificate"]

\* C8: a successful sending() or received() writes the one slot of the
\* message's type and direction; every other slot keeps its presence and
\* its content.
C8_OtherSlotsUnchanged ==
    [][(last'.op \in {"sending", "received"} /\ last'.outcome = "ok") =>
          /\ last'.ref \in Slots
          /\ slots'[last'.ref] = last'.msg
          /\ \A s \in Slots \ {last'.ref} : slots'[s] = slots[s]]_vars

C8_Witness ==
    /\ StoreCall
    /\ \E s \in Slots \ {last.ref} : slots[s] # nullopt

\* C9: sending() exists only for the types of the role's outbound variant, so
\* nothing has ever been stored by sending a type the role may not send.
C9_OnlyOutboundTypesSent ==
    LET outbound == IF m_side = "Client" THEN Client_Handshake_13_Message
                                         ELSE Server_Handshake_13_Message
    IN  /\ \A t \in Handshake_Message_13 : sent[t] # nullopt => t \in outbound
        /\ last.op = "sending" => last.type \in outbound

C9_Witness ==
    /\ last.op = "sending" /\ last.outcome = "ok"
    /\ m_side = "Server" /\ last.type = "Encrypted_Extensions"
    /\ slots["m_encrypted_extensions"] = last.msg

\* C10: a successful sending() or received() returns a reference to the slot
\* of the message's type and direction, which now holds the message: what the
\* reference gives is what the getter of that slot gives.
C10_ReturnsStoredMessage ==
    StoreCall =>
       /\ last.ref \in Slots
       /\ last.ref = TargetSlot(m_side, last.type, last.op = "received")
       /\ slots[last.ref] = last.msg
       /\ last.ref \in Getters =>
             get(slots[last.ref]) = [outcome |-> "ok", value |-> last.msg]

C10_Witness ==
    /\ StoreCall /\ last.op = "received"
    /\ last.ref = "m_server_hello"
    /\ slots["m_server_hello"] = last.msg

\* C11: the store is append-only: a slot that is set stays set across every
\* call, so each has_X() once true stays true and handshake_finished() once
\* true stays true.
C11_AppendOnly ==
    [][/\ \A s \in Slots : slots[s] # nullopt => slots'[s] # nullopt
       /\ \A s \in HasQueries : has_query(s) => has_query(s)'
       /\ handshake_finished => handshake_finished']_vars

C11_Witness ==
    /\ handshake_finished
    /\ last.op = "received" /\ last.outcome = "UnexpectedMessage"

\* C12: only the type is checked, never the order: whatever is already
\* stored, received(m) succeeds and stores m for every type of the role's
\* inbound variant, and sending(m) for every type of its outbound variant.
C12_NoOrderingCheck ==
    Idle =>
       LET inbound == IF m_side = "Client" THEN Server_Handshake_13_Message
                                            ELSE Client_Handshake_13_Message
           outbound == IF m_side = "Client" THEN Client_Handshake_13_Message
                                            ELSE Server_Handshake_13_Message
       IN  \A t \in Handshake_Message_13, msg \in Msgs :
              /\ t \in inbound =>
                    LET r == received(slots, m_side, t, msg)
                    IN  r.outcome = "ok" /\ r.st[r.ref] = msg
              /\ t \in outbound =>
                    /\ sending_compiles(m_side, t)
                    /\ LET r == sending(slots, m_side, t, msg)
                       IN  r.outcome = "ok" /\ r.st[r.ref] = msg

C12_Witness ==
    /\ StoreCall /\ last.op = "received"
    /\ last.type = "Finished_13" /\ last.prior = nullopt
    /\ slots["m_client_hello"] = nullopt /\ slots["m_server_hello"] = nullopt
    /\ slots[last.ref] = last.msg

\* C13: the public interface hands out a mutable reference only to the
\* stored ClientHello: every non-const reference a call returns designates
\* m_client_hello.
C13_OnlyClientHelloMutable ==
    /\ (last.op = "get" /\ last.outcome = "ok" /\ last.mutable)
          => last.slot = "m_client_hello"
    /\ (StoreCall /\ last.mutable) => last.ref = "m_client_hello"

\* C14 as stated: every message type the store holds (every slot a getter
\* reads) has a has_X() query that is true exactly when the slot is set.
C14_HasQueryForEveryType ==
    \A s \in Getters : s \in HasQueries /\ has_query(s) = (slots[s] # nullopt)

\* C14 as amended: the eight presence queries (client hello, server hello,
\* server and client certificate, hello retry request, certificate request,
\* server and client finished) return true exactly when their slot is set,
\* and calling one changes no slot.
C14_HasQueryIsPresence ==
    [][last'.op = "has" =>
          /\ slots' = slots
          /\ last'.slot \in {"m_client_hello", "m_server_hello",
                             "m_server_certificate", "m_client_certificate",
                             "m_hello_retry_request", "m_certificate_request",
                             "m_server_finished", "m_client_finished"}
          /\ last'.value = (slots[last'.slot] # nullopt)]_vars

C14_Witness ==
    /\ last.op = "has" /\ last.value = TRUE
    /\ slots[last.slot] # nullopt

\* C15: received(Post_Handshake_Message_13) returns the message when its type
\* is in the role's post-handshake inbound variant (NewSessionTicket and
\* KeyUpdate on a client, KeyUpdate on a server) and otherwise fails with the
\* unexpected_message alert, whether or not the handshake has finished.
C15_PostHandshakeByRole ==
    last.op = "received_post" =>
       LET allowed == IF m_side = "Client"
                      THEN {"New_Session_Ticket_13", "Key_Update"}
                      ELSE {"Key_Update"}
       IN  IF last.type \in allowed
           THEN last.outcome = "ok" /\ last.value = last.msg
           ELSE last.outcome = "UnexpectedMessage"

C15_Witness ==
    /\ last.op = "received_post" /\ last.outcome = "ok"
    /\ ~handshake_finished
    /\ last.value = last.msg

----------------------------------------------------------------------------
\* The Kyber primitives provider and the scheme logic calling it

\* Two distinct seeds.
Seeds == {<<0>>, <<MaxByte>>}

Matrix_Positions == (0..MaxByte) \X (0..MaxByte)

\* Two distinct nonces.
Nonces == {0, MaxByte}

Read_Lengths == 1..MaxLen

\* Output lengths asked of PRF: 1 .. MaxLen, and 2^61 + 1.
Out_Lengths == {size_t(0, lo) : lo \in 1..MaxLen} \cup {size_t(1, 1)}

\* The handshake state plays no part in the provider's behaviours.
HandshakeUnused ==
    /\ m_side = "Client"
    /\ slots = [s \in Slots |-> nullopt]
    /\ sent = [t \in Handshake_Message_13 |-> nullopt]
    /\ recvd = [t \in Handshake_Message_13 |-> nullopt]
    /\ last = [op |-> "none"]

\* A provider of either family, built with either XOF interface.
KyberInit ==
    /\ HandshakeUnused
    /\ UtilitiesUnused
    /\ variant \in {"reference", "object"}
    /\ \E f \in {"modern", "90s"} : ProviderUnused(f)

\* The scheme logic calls the provider strictly one call at a time.
KyberIdle == kcall.op = "none"

\* The member object XOF() re-seeds.
ProviderXOF(p) ==
    IF family = "modern" THEN p.m_shake128 ELSE p.m_aes256_ctr_xof

WithProviderXOF(obj) ==
    IF family = "modern" THEN [provider EXCEPT !.m_shake128 = obj]
                         ELSE [provider EXCEPT !.m_aes256_ctr_xof = obj]

NewProvider ==
    IF family = "modern" THEN Kyber_Modern_Symmetric_Primitives
                         ELSE Kyber_90s_Symmetric_Primitives

\* The most recent derivation made on this provider, if any.
LastDerivation ==
    IF deriv.active
    THEN [some |-> TRUE, seed |-> deriv.seed, pos |-> deriv.pos,
          stream |-> deriv.stream]
    ELSE deriv.old

\* History of a derivation that starts now: whether the object it uses had
\* already produced output (dirty), whether the previous derivation was for
\* the same seed and position (again), and what that one read (first).
NewDerivation(seed, matrix_position, dirty) ==
    LET l == LastDerivation
        again == l.some /\ l.seed = seed /\ l.pos = matrix_position
    IN  [active |-> TRUE, seed |-> seed, pos |-> matrix_position,
         stream |-> <<>>, dirty |-> dirty, again |-> again,
         first |-> IF again THEN l.stream ELSE <<>>]

\* XOF(seed, matrix_position) of the interface returning Botan::XOF&.
XOF_Reference(seed, matrix_position) ==
    /\ variant = "reference"
    /\ LET r == IF family = "modern"
                THEN Kyber_Modern_Symmetric_Primitives_XOF(
                         provider.m_shake128, seed, matrix_position)
                ELSE Kyber_90s_Symmetric_Primitives_XOF(
                         provider.m_aes256_ctr_xof, seed, matrix_position)
       IN  /\ provider' = WithProviderXOF(r.obj)
           /\ deriv' = IF r.outcome = "ok"
                       THEN NewDerivation(seed, matrix_position,
                                          ProviderXOF(provider).pos > 0)
                       ELSE [active |-> FALSE, old |-> LastDerivation]
           /\ kcall' = [op |-> "XOF", outcome |-> r.outcome]
    /\ UNCHANGED <<family, variant, kxof, objs, handles, fed, hvars, uvars>>

\* output(n) on the reference XOF() returned.
Output(n) ==
    /\ variant = "reference"
    /\ deriv.active
    /\ Len(deriv.stream) + n <= MaxLen
    /\ LET r == IF family = "modern"
                THEN XOF_output(provider.m_shake128, n)
                ELSE AES_256_CTR_XOF_output(provider.m_aes256_ctr_xof, n)
       IN  /\ provider' = WithProviderXOF(r.obj)
           /\ deriv' = [deriv EXCEPT !.stream = @ \o r.out]
           /\ kcall' = [op |-> "output", outcome |-> r.outcome, out |-> r.out]
    /\ UNCHANGED <<family, variant, kxof, objs, handles, fed, hvars, uvars>>

\* XOF(seed) of the interface returning std::unique_ptr<Kyber_XOF>; the
\* caller keeps the new object in place of the one it held.
XOF_Object(seed) ==
    /\ variant = "object"
    /\ LET r == IF family = "modern"
                THEN [outcome |-> "ok", obj |-> Kyber_Modern_XOF(seed)]
                ELSE Kyber_90s_Symmetric_Primitives_XOF_object(provider, seed)
       IN  IF r.outcome = "ok"
           THEN /\ kxof' = [held |-> TRUE, obj |-> r.obj]
                /\ deriv' = [active |-> FALSE, seed |-> seed,
                             old |-> LastDerivation]
                /\ kcall' = [op |-> "XOF", outcome |-> "ok"]
           ELSE /\ kxof' = kxof
                /\ deriv' = deriv
                /\ kcall' = [op |-> "XOF", outcome |-> r.outcome]
    /\ UNCHANGED <<family, variant, provider, objs, handles, fed, hvars, uvars>>

\* Kyber_XOF::set_position(matrix_position) on the held object.
Set_Position(matrix_position) ==
    /\ variant = "object"
    /\ kxof.held
    /\ kxof' = [kxof EXCEPT !.obj =
                  IF family = "modern"
                  THEN Kyber_Modern_XOF_set_position(@, matrix_position)
                  ELSE Kyber_90s_XOF_set_position(@, matrix_position)]
    /\ deriv' = NewDerivation(deriv.seed, matrix_position,
                              kxof.obj.m_cipher.pos > 0)
    /\ kcall' = [op |-> "set_position", outcome |-> "ok"]
    /\ UNCHANGED <<family, variant, provider, objs, handles, fed, hvars, uvars>>

\* Kyber_XOF::write_output(out) on the held object, out.size() = n.
Write_Output(n) ==
    /\ variant = "object"
    /\ kxof.held
    /\ kxof.obj.m_cipher.pos + n <= MaxLen
    /\ LET r == IF family = "modern"
                THEN Kyber_Modern_XOF_write_output(kxof.obj, n)
                ELSE Kyber_90s_XOF_write_output(kxof.obj, n)
       IN  /\ kxof' = [kxof EXCEPT !.obj = r.obj]
           /\ deriv' = IF deriv.active /\ r.outcome = "ok"
                       THEN [deriv EXCEPT !.stream = @ \o r.out]
                       ELSE deriv
           /\ kcall' = [op |-> "write_output", outcome |-> r.outcome,
                        out |-> r.out]
    /\ UNCHANGED <<family, variant, provider, objs, handles, fed, hvars, uvars>>

\* PRF(seed, nonce, outlen).
PRF_on_xof_object(seed, nonce, outlen) ==
    /\ LET r == IF family = "modern"
                THEN Kyber_Modern_Symmetric_Primitives_PRF(seed, nonce, outlen)
                ELSE Kyber_90s_Symmetric_Primitives_PRF(
                         provider.m_aes256_ctr_xof, seed, nonce, outlen)
       IN  /\ provider' = IF family = "modern"
                          THEN provider
                          ELSE [provider EXCEPT !.m_aes256_ctr_xof = r.obj]
           /\ kcall' = [op |-> "PRF", seed |-> seed, nonce |-> nonce,
                        outlen |-> outlen, outcome |-> r.outcome,
                        out |-> r.out,
                        used |-> provider # NewProvider \/ kxof.held]
    /\ UNCHANGED <<family, variant, kxof, objs, handles, fed, deriv, hvars, uvars>>

PRF(seed, nonce, outlen) ==
    /\ LET r == IF family = "modern"
                THEN Kyber_Modern_Symmetric_Primitives_PRF(seed, nonce, outlen)
                ELSE Kyber_90s_Symmetric_Primitives_PRF(
                         provider.m_aes256_ctr_prf, seed, nonce, outlen)
       IN  /\ provider' = IF family = "modern"
                          THEN provider
                          ELSE [provider EXCEPT !.m_aes256_ctr_prf = r.obj]
           /\ kcall' = [op |-> "PRF", seed |-> seed, nonce |-> nonce,
                        outlen |-> outlen, outcome |-> r.outcome,
                        out |-> r.out,
                        used |-> provider # NewProvider \/ kxof.held]
    /\ UNCHANGED <<family, variant, kxof, objs, handles, fed, deriv, hvars, uvars>>

\* The caller is done with the result of its last call on the provider.
KyberReturn ==
    /\ ~KyberIdle
    /\ kcall' = [op |-> "none"]
    /\ UNCHANGED <<family, variant, provider, kxof, objs, handles, fed,
                   deriv, hvars, uvars>>

KyberNext ==
    \/ KyberIdle /\ \E seed \in Seeds, matrix_position \in Matrix_Positions :
                       XOF_Reference(seed, matrix_position)
    \/ KyberIdle /\ \E n \in Read_Lengths : Output(n)
    \/ KyberIdle /\ \E seed \in Seeds : XOF_Object(seed)
    \/ KyberIdle /\ \E matrix_position \in Matrix_Positions :
                       Set_Position(matrix_position)
    \/ KyberIdle /\ \E n \in Read_Lengths : Write_Output(n)
    \/ KyberIdle /\ \E seed \in Seeds, nonce \in Nonces,
                       outlen \in Out_Lengths : PRF(seed, nonce, outlen)
    \/ KyberReturn

SpecKyber == KyberInit /\ [][KyberNext]_vars

----------------------------------------------------------------------------
\* The hash objects handed out by G(), H() and KDF()

HashInit ==
    /\ HandshakeUnused
    /\ UtilitiesUnused
    /\ variant = "reference"
    /\ \E f \in {"modern", "90s"} : ProviderUnused(f)

\* The object a pointer refers to.
Deref(ptr) ==
    IF ptr.region = "provider" THEN provider[ptr.member] ELSE objs[ptr.at]

\* G(), H() or KDF(); the caller keeps the returned pointer.
HashCall(fn) ==
    /\ Len(handles) < MaxObj
    /\ LET r == IF family = "modern"
                THEN CASE fn = "G" -> Kyber_Modern_G(provider, objs)
                       [] fn = "H" -> Kyber_Modern_H(provider, objs)
                       [] fn = "KDF" -> Kyber_Modern_KDF(provider, objs)
                ELSE CASE fn = "G" -> Kyber_90s_G(provider, objs)
                       [] fn = "H" -> Kyber_90s_H(provider, objs)
                       [] fn = "KDF" -> Kyber_90s_KDF(provider, objs)
       IN  /\ objs' = r.objs
           /\ handles' = Append(handles, r.ptr)
           /\ fed' = Append(fed, <<>>)
           /\ kcall' = [op |-> fn, ptr |-> r.ptr]
    /\ UNCHANGED <<family, variant, provider, kxof, deriv, hvars, uvars>>

\* The object behind a pointer replaced by its next state.
WriteThrough(ptr, h) ==
    IF ptr.region = "provider"
    THEN /\ provider' = [provider EXCEPT ![ptr.member] = h]
         /\ objs' = objs
    ELSE /\ objs' = [objs EXCEPT ![ptr.at] = h]
         /\ provider' = provider

\* update(bytes) through the k-th returned pointer.
HashUpdate(k, bytes) ==
    /\ k \in 1..Len(handles)
    /\ Len(fed[k]) + Len(bytes) <= MaxData
    /\ WriteThrough(handles[k], HashFunction_update(Deref(handles[k]), bytes))
    /\ fed' = [fed EXCEPT ![k] = @ \o bytes]
    /\ kcall' = [op |-> "update", k |-> k]
    /\ UNCHANGED <<family, variant, handles, kxof, deriv, hvars, uvars>>

\* final() through the k-th returned pointer.
HashFinal(k) ==
    /\ k \in 1..Len(handles)
    /\ LET r == HashFunction_final(Deref(handles[k]))
       IN  /\ WriteThrough(handles[k], r.obj)
           /\ kcall' = [op |-> "final", k |-> k, digest |-> r.digest,
                        data |-> fed[k]]
    /\ fed' = [fed EXCEPT ![k] = <<>>]
    /\ UNCHANGED <<family, variant, handles, kxof, deriv, hvars, uvars>>

HashReturn ==
    /\ ~KyberIdle
    /\ kcall' = [op |-> "none"]
    /\ UNCHANGED <<family, variant, provider, kxof, objs, handles, fed,
                   deriv, hvars, uvars>>

HashNext ==
    \/ KyberIdle /\ \E fn \in {"G", "H", "KDF"} : HashCall(fn)
    \/ KyberIdle /\ \E k \in 1..MaxObj, bytes \in Seeds : HashUpdate(k, bytes)
    \/ KyberIdle /\ \E k \in 1..MaxObj : HashFinal(k)
    \/ HashReturn

SpecHash == HashInit /\ [][HashNext]_vars

----------------------------------------------------------------------------
\* Claims about the Kyber primitives

\* The stream XOF(seed, matrix_position) of the reference interface gives on
\* a newly constructed provider of family f.
ReferenceStream(f, seed, matrix_position, n) ==
    IF f = "modern"
    THEN XOF_output(
             Kyber_Modern_Symmetric_Primitives_XOF(
                 Kyber_Modern_Symmetric_Primitives.m_shake128,
                 seed, matrix_position).obj, n).out
    ELSE AES_256_CTR_XOF_output(
             Kyber_90s_Symmetric_Primitives_XOF(
                 Kyber_90s_Symmetric_Primitives.m_aes256_ctr_xof,
                 seed, matrix_position).obj, n).out

\* The stream the Kyber_XOF object that XOF(seed) returns on a newly
\* constructed provider of family f writes after
\* set_position(matrix_position); no stream where XOF(seed) does not build.
ObjectStream(f, seed, matrix_position, n) ==
    IF f = "modern"
    THEN Kyber_Modern_XOF_write_output(
             Kyber_Modern_XOF_set_position(Kyber_Modern_XOF(seed),
                                           matrix_position), n).out
    ELSE LET r == Kyber_90s_Symmetric_Primitives_XOF_object(
                      Kyber_90s_Symmetric_Primitives, seed)
         IN  IF r.outcome = "ok"
             THEN Kyber_90s_XOF_write_output(
                      Kyber_90s_XOF_set_position(r.obj, matrix_position),
                      n).out
             ELSE <<>>

\* What PRF gives on a newly constructed provider of family f.
FreshPRF(f, seed, nonce, outlen) ==
    IF f = "modern"
    THEN Kyber_Modern_Symmetric_Primitives_PRF(seed, nonce, outlen)
    ELSE Kyber_90s_Symmetric_Primitives_PRF(
             Kyber_90s_Symmetric_Primitives.m_aes256_ctr_prf,
             seed, nonce, outlen)

\* How a call of XOF ends in the build at hand: the Kyber_XOF interface of
\* the 90s family does not build.
XOF_Outcome ==
    IF variant = "object" /\ family = "90s" THEN "ill_formed" ELSE "ok"

\* C16: XOF determinism.  A call of XOF for a seed and matrix position never
\* fails where it builds, and when the previous derivation on the provider was for the same
\* seed and position, the bytes read now are byte for byte the bytes read
\* then, in both families and for every number of bytes read.
C16_XOFDeterministic ==
    /\ kcall.op = "XOF" => kcall.outcome = XOF_Outcome
    /\ kcall.op \in {"set_position", "output"} => kcall.outcome = "ok"
    /\ (deriv.active /\ deriv.again) =>
           \A i \in 1..Len(deriv.stream) :
               i <= Len(deriv.first) => deriv.stream[i] = deriv.first[i]

C16_Witness ==
    /\ deriv.active /\ deriv.again
    /\ Len(deriv.first) = MaxLen
    /\ deriv.stream = deriv.first

\* C17: the XOF/PRF state is reset before each derivation.  Whatever the
\* provider (or the Kyber_XOF object) was used for before, the stream read
\* for a seed and position is the stream a newly constructed provider gives
\* for them, and PRF gives what it gives on a newly constructed provider.
C17_ResetBeforeDerivation ==
    /\ kcall.op = "XOF" => kcall.outcome = XOF_Outcome
    /\ deriv.active =>
           deriv.stream =
               IF variant = "reference"
               THEN ReferenceStream(family, deriv.seed, deriv.pos,
                                    Len(deriv.stream))
               ELSE ObjectStream(family, deriv.seed, deriv.pos,
                                 Len(deriv.stream))
    /\ kcall.op = "PRF" =>
           LET f == FreshPRF(family, kcall.seed, kcall.nonce, kcall.outlen)
           IN  kcall.outcome = f.outcome /\ kcall.out = f.out

C17_Witness ==
    /\ deriv.active /\ deriv.dirty /\ ~deriv.again
    /\ Len(deriv.stream) = MaxLen

\* C18: the two XOF interfaces in the source are equivalent in both
\* families.  XOF can be called through either, for every seed and matrix
\* position the reference interface and the Kyber_XOF interface give the same
\* stream, and the stream read in any derivation through one interface is
\* the stream the other interface gives for that seed and position.
C18_XOFInterfacesEquivalent ==
    /\ kcall.op = "XOF" => kcall.outcome = "ok"
    /\ \A f \in {"modern", "90s"}, seed \in Seeds,
          matrix_position \in Matrix_Positions :
           ReferenceStream(f, seed, matrix_position, MaxLen)
               = ObjectStream(f, seed, matrix_position, MaxLen)
    /\ deriv.active =>
           deriv.stream =
               IF variant = "reference"
               THEN ObjectStream(family, deriv.seed, deriv.pos,
                                 Len(deriv.stream))
               ELSE ReferenceStream(family, deriv.seed, deriv.pos,
                                    Len(deriv.stream))

\* C19: a PRF call that returns, returns exactly outlen bytes, and they
\* depend only on seed, nonce and outlen.  (The returned buffer is far
\* shorter than 2^61 bytes, so its length is outlen exactly when the high
\* digit of outlen is 0 and the length is the low digit.)
C19_PRFExactLength ==
    (kcall.op = "PRF" /\ kcall.outcome = "ok") =>
        /\ kcall.outlen.hi = 0
        /\ Len(kcall.out) = kcall.outlen.lo
        /\ kcall.out = FreshPRF(family, kcall.seed, kcall.nonce,
                                kcall.outlen).out

\* C20: every pointer G(), H() and KDF() return refers to an object of its
\* own, never to a member of the provider or to an object returned before;
\* the object is in its initial state when returned; what an object holds is
\* what was fed through its own pointer, so a digest is the digest of that
\* data alone; and the provider's own objects stay as constructed.
C20_HashObjectsIndependent ==
    /\ provider = NewProvider
    /\ \A k \in 1..Len(handles) :
           /\ handles[k].region = "heap"
           /\ \A j \in 1..Len(handles) : j # k => handles[j] # handles[k]
           /\ Deref(handles[k]).data = fed[k]
    /\ kcall.op \in {"G", "H", "KDF"} =>
           /\ kcall.ptr = handles[Len(handles)]
           /\ Deref(kcall.ptr).data = <<>>
    /\ kcall.op = "final" =>
           kcall.digest = <<Deref(handles[kcall.k]).alg, kcall.data>>

C20_Witness ==
    /\ Len(handles) = MaxObj
    /\ kcall.op = "final" /\ kcall.data # <<>>
    /\ \E j \in 1..Len(handles) :
           /\ j # kcall.k
           /\ Deref(handles[j]).alg = Deref(handles[kcall.k]).alg
           /\ fed[j] # <<>> /\ fed[j] # kcall.data

----------------------------------------------------------------------------
\* Session_Manager_Noop

\* establish(session, id, tls12_no_ticket): no handle.
Session_Manager_Noop_establish_keeps(session, id, tls12_no_ticket) == session

Session_Manager_Noop_establish(session, id, tls12_no_ticket) == nullopt

\* store(session, handle): empty body.
Session_Manager_Noop_store(session, handle) == "void"

Session_Manager_Noop_remove(handle) == 0

Session_Manager_Noop_remove_all == 0

Session_Manager_Noop_retrieve_one(handle) == nullopt

\* find_some(info, max_sessions_hint): the empty vector.
Session_Manager_Noop_find_some(info, max_sessions_hint) == <<>>

Sessions == 1..MaxSession

Session_Handles == 1..MaxSession

\* The Kyber provider plays no part in the behaviours of the other objects.
KyberUnused ==
    /\ variant = "reference"
    /\ ProviderUnused("modern")

\* Every object but one unused.
Unused_not_mvars ==
    /\ HandshakeUnused
    /\ KyberUnused
    /\ EraseIfUnused
    /\ StartsWithUnused
    /\ SpanUnused
    /\ DilithiumUnused
    /\ VariantUnused

Unused_not_evars ==
    /\ HandshakeUnused
    /\ KyberUnused
    /\ SessionManagerUnused
    /\ StartsWithUnused
    /\ SpanUnused
    /\ DilithiumUnused
    /\ VariantUnused

Unused_not_wvars ==
    /\ HandshakeUnused
    /\ KyberUnused
    /\ SessionManagerUnused
    /\ EraseIfUnused
    /\ SpanUnused
    /\ DilithiumUnused
    /\ VariantUnused

Unused_not_pvars ==
    /\ HandshakeUnused
    /\ KyberUnused
    /\ SessionManagerUnused
    /\ EraseIfUnused
    /\ StartsWithUnused
    /\ DilithiumUnused
    /\ VariantUnused

Unused_not_dvars ==
    /\ HandshakeUnused
    /\ KyberUnused
    /\ SessionManagerUnused
    /\ EraseIfUnused
    /\ StartsWithUnused
    /\ SpanUnused
    /\ VariantUnused

Unused_not_avars ==
    /\ HandshakeUnused
    /\ KyberUnused
    /\ SessionManagerUnused
    /\ EraseIfUnused
    /\ StartsWithUnused
    /\ SpanUnused
    /\ DilithiumUnused

SessionManagerInit ==
    /\ Unused_not_mvars
    /\ SessionManagerUnused

SessionManagerIdle == sm_call.op = "none"

Establish(session, id, tls12_no_ticket) ==
    /\ sm_offered' = [sm_offered EXCEPT !.sessions = @ \cup {session}]
    /\ sm_call' = [op |-> "establish", session |-> session,
                   result |-> Session_Manager_Noop_establish(
                                  session, id, tls12_no_ticket)]
    /\ UNCHANGED <<not_mvars>>

Store(session, handle) ==
    /\ sm_offered' = [sessions |-> sm_offered.sessions \cup {session},
                      handles |-> sm_offered.handles \cup {handle}]
    /\ sm_call' = [op |-> "store", session |-> session, handle |-> handle,
                   result |-> Session_Manager_Noop_store(session, handle)]
    /\ UNCHANGED <<not_mvars>>

Remove(handle) ==
    /\ sm_call' = [op |-> "remove", handle |-> handle,
                   result |-> Session_Manager_Noop_remove(handle)]
    /\ UNCHANGED <<sm_offered, not_mvars>>

Remove_All ==
    /\ sm_call' = [op |-> "remove_all",
                   result |-> Session_Manager_Noop_remove_all]
    /\ UNCHANGED <<sm_offered, not_mvars>>

Retrieve_One(handle) ==
    /\ sm_call' = [op |-> "retrieve_one", handle |-> handle,
                   result |-> Session_Manager_Noop_retrieve_one(handle)]
    /\ UNCHANGED <<sm_offered, not_mvars>>

Find_Some(info, max_sessions_hint) ==
    /\ sm_call' = [op |-> "find_some", info |-> info,
                   result |-> Session_Manager_Noop_find_some(
                                  info, max_sessions_hint)]
    /\ UNCHANGED <<sm_offered, not_mvars>>

SessionManagerReturn ==
    /\ ~SessionManagerIdle
    /\ sm_call' = [op |-> "none"]
    /\ UNCHANGED <<sm_offered, not_mvars>>

SessionManagerNext ==
    \/ SessionManagerIdle
         /\ \E session \in Sessions, id \in {nullopt} \cup Sessions,
               tls12_no_ticket \in BOOLEAN :
                Establish(session, id, tls12_no_ticket)
    \/ SessionManagerIdle
         /\ \E session \in Sessions, handle \in Session_Handles :
                Store(session, handle)
    \/ SessionManagerIdle /\ \E handle \in Session_Handles : Remove(handle)
    \/ SessionManagerIdle /\ Remove_All
    \/ SessionManagerIdle
         /\ \E handle \in Session_Handles : Retrieve_One(handle)
    \/ SessionManagerIdle
         /\ \E info \in Sessions, max_sessions_hint \in Sessions :
                Find_Some(info, max_sessions_hint)
    \/ SessionManagerReturn

SpecSessionManager == SessionManagerInit /\ [][SessionManagerNext]_vars

\* C21: Session_Manager_Noop never saves a session.  Whatever sessions and
\* handles were passed to establish() and store() before, establish()
\* returns no handle, retrieve_one() no session, find_some() the empty list,
\* and remove() / remove_all() return 0.
C21_NeverSavesSession ==
    /\ sm_call.op = "establish" => sm_call.result = nullopt
    /\ sm_call.op = "retrieve_one" => sm_call.result = nullopt
    /\ sm_call.op = "find_some" => sm_call.result = <<>>
    /\ sm_call.op \in {"remove", "remove_all"} => sm_call.result = 0

C21_Witness ==
    /\ sm_call.op = "retrieve_one"
    /\ sm_call.handle \in sm_offered.handles
    /\ sm_offered.sessions = Sessions
    /\ sm_call.result = nullopt

----------------------------------------------------------------------------
\* erase_if(std::map&, pred)

Keys == 1..MaxKey

Mapped_Values == {"a", "b"}

\* The std::map<int, std::string> values over the keys.
Maps == UNION {[D -> Mapped_Values] : D \in SUBSET Keys}

\* A predicate on the entries is the set of entries it is true of.
Preds == SUBSET (Keys \X Mapped_Values)

pred_holds(pred, c, k) == <<k, c[k]>> \in pred

\* Iterators into a std::map: <<k>> points at the entry with key k, <<>> is
\* end().  The entries are visited in key order.
map_end == <<>>

map_least(keys) ==
    IF keys = {}
    THEN map_end
    ELSE <<CHOOSE j \in keys : \A i \in keys : j <= i>>

map_begin(c) == map_least(DOMAIN c)

\* ++it
map_increment(c, it) == map_least({j \in DOMAIN c : j > it[1]})

\* c.erase(it): the entry is gone; returns the iterator following it.
map_erase(c, it) ==
    [c |-> [k \in DOMAIN c \ {it[1]} |-> c[k]],
     it |-> map_increment(c, it)]

\* The body of the for loop: one entry is tested and erased or passed.
erase_if_body_skips(c, first, pred) ==
    IF pred_holds(pred, c, first[1])
    THEN LET e == map_erase(c, first)
         IN  [c |-> e.c,
              first |-> IF e.it = map_end THEN map_end
                        ELSE map_increment(e.c, e.it)]
    ELSE [c |-> c, first |-> map_increment(c, first)]

erase_if_body(c, first, pred) ==
    IF pred_holds(pred, c, first[1])
    THEN LET e == map_erase(c, first)
         IN  [c |-> e.c, first |-> e.it]
    ELSE [c |-> c, first |-> map_increment(c, first)]

\* Any map and any predicate, erase_if about to be called.
EraseIfInit ==
    /\ Unused_not_evars
    /\ ei_in \in [c : Maps, pred : Preds]
    /\ ei_c = ei_in.c
    /\ ei_frame = [pc |-> "call"]

\* auto old_size = c.size(); first = c.begin(), last = c.end()
EraseIfEnter ==
    /\ ei_frame.pc = "call"
    /\ ei_frame' = [pc |-> "loop", old_size |-> Cardinality(DOMAIN ei_c),
                    first |-> map_begin(ei_c), last |-> map_end]
    /\ UNCHANGED <<ei_in, ei_c, not_evars>>

\* One iteration of the loop, first != last.
EraseIfIterate ==
    /\ ei_frame.pc = "loop"
    /\ ei_frame.first # ei_frame.last
    /\ LET r == erase_if_body(ei_c, ei_frame.first, ei_in.pred)
       IN  /\ ei_c' = r.c
           /\ ei_frame' = [ei_frame EXCEPT !.first = r.first]
    /\ UNCHANGED <<ei_in, not_evars>>

\* first == last: return old_size - c.size()
EraseIfReturn ==
    /\ ei_frame.pc = "loop"
    /\ ei_frame.first = ei_frame.last
    /\ ei_frame' = [pc |-> "done",
                    result |-> ei_frame.old_size - Cardinality(DOMAIN ei_c)]
    /\ UNCHANGED <<ei_in, ei_c, not_evars>>

EraseIfNext ==
    \/ EraseIfEnter
    \/ EraseIfIterate
    \/ EraseIfReturn

\* The call runs on: no step of erase_if waits for anything.
SpecEraseIf == EraseIfInit /\ [][EraseIfNext]_vars /\ WF_vars(EraseIfNext)

\* The entries of the map handed in that the predicate is true of.
Erasable == {k \in DOMAIN ei_in.c : pred_holds(ei_in.pred, ei_in.c, k)}

\* C22: erase_if terminates, and when it has returned the map holds exactly
\* the entries the predicate is false of, each with its value unchanged, and
\* the result is the number of entries removed.
C22_EraseIfRemovesExactly ==
    /\ <>(ei_frame.pc = "done")
    /\ [](ei_frame.pc = "done" =>
              /\ DOMAIN ei_c = DOMAIN ei_in.c \ Erasable
              /\ \A k \in DOMAIN ei_c : ei_c[k] = ei_in.c[k]
              /\ ei_frame.result = Cardinality(Erasable))

C22_Witness ==
    /\ ei_frame.pc = "done"
    /\ Cardinality(DOMAIN ei_in.c) = MaxKey
    /\ ei_frame.result > 1
    /\ DOMAIN ei_c # {}

----------------------------------------------------------------------------
\* starts_with(str, what)

Chars == {"a", "b"}

Strings == UNION {[1..n -> Chars] : n \in 0..MaxStr}

\* std::string_view::npos, the value find() returns when there is no match.
string_view_npos == -1

ZERO_POS == 0

\* what occurs in str at position pos (counted from 0).
occurs_at(str, what, pos) ==
    /\ pos + Len(what) <= Len(str)
    /\ \A i \in 1..Len(what) : str[pos + i] = what[i]

\* str.find(what): the first position at which what occurs in str, else
\* npos; the empty what occurs at position 0 of every str.
string_view_find(str, what) ==
    LET found == {pos \in 0..Len(str) : occurs_at(str, what, pos)}
    IN  IF found = {}
        THEN string_view_npos
        ELSE CHOOSE pos \in found : \A other \in found : pos <= other

starts_with_anywhere(str, what) ==
    string_view_find(str, what) # string_view_npos

starts_with(str, what) == string_view_find(str, what) = ZERO_POS

StartsWithInit ==
    /\ Unused_not_wvars
    /\ sw_args \in [str : Strings, what : Strings]
    /\ sw_result = [pc |-> "call"]

StartsWithCall ==
    /\ sw_result.pc = "call"
    /\ sw_result' = [pc |-> "done",
                     value |-> starts_with(sw_args.str, sw_args.what)]
    /\ UNCHANGED <<sw_args, not_wvars>>

StartsWithNext == StartsWithCall

SpecStartsWith == StartsWithInit /\ [][StartsWithNext]_vars

\* C23: starts_with(str, what) is true exactly when what is a prefix of
\* str: what is no longer than str and equals its first Len(what)
\* characters.  So it is true for the empty what, false for a what longer
\* than str, and false for a what that occurs only further on.
C23_StartsWithIsPrefix ==
    sw_result.pc = "done" =>
        /\ sw_result.value =
               (/\ Len(sw_args.what) <= Len(sw_args.str)
                /\ SubSeq(sw_args.str, 1, Len(sw_args.what)) = sw_args.what)
        /\ sw_args.what = <<>> => sw_result.value
        /\ Len(sw_args.str) < Len(sw_args.what) => ~sw_result.value

C23_Witness ==
    /\ sw_result.pc = "done"
    /\ ~sw_result.value
    /\ sw_args.what # <<>>
    /\ \E pos \in 1..Len(sw_args.str) :
           occurs_at(sw_args.str, sw_args.what, pos)

----------------------------------------------------------------------------
\* span: first, last, subspan

\* A size_t value v is held as the integer r nearest 0 with v = r modulo
\* 2^64: r >= 0 is the value r, r < 0 is the value 2^64 + r.  Sums and
\* differences of such integers are then exact modulo 2^64.
Size_T == -MaxSize..MaxSize

\* std::numeric_limits<std::size_t>::max()
dynamic_extent == -1

size_t_minus(a, b) == a - b

\* a <= b as size_t values.
size_t_le(a, b) == IF (a >= 0) <=> (b >= 0) THEN a <= b ELSE a >= 0

\* Pointers: <<>> is nullptr, <<i>> points at element i of the array the
\* span was made over; <<n>> is one past the end of an array of n elements.
nullptr == <<>>

\* The pointers p + k can be.  Inside the array (or one past its end), and
\* for nullptr + 0, it is the one pointer the language defines; anything
\* else is undefined behaviour and may give any pointer: the address
\* arithmetic carried out as it stands, p + k modulo 2^64, which is what the
\* usual builds give, or any other.
pointer_plus(p, k, array_size) ==
    IF p = nullptr
    THEN IF k = 0 THEN {nullptr}
                  ELSE {nullptr} \cup {<<j>> : j \in Size_T}
    ELSE IF k >= 0 /\ p[1] + k <= array_size
         THEN {<<p[1] + k>>}
         ELSE {nullptr, <<p[1] + k>>} \cup {<<j>> : j \in Size_T}

\* span(first, count): m_data(first), m_size(count)
span(first, count) == [m_data |-> first, m_size |-> count]

\* The number of elements of the array s was made over.
array_of(s) == s.m_size

\* first(count): span(data(), count)
span_first(s, count) == {span(s.m_data, count)}

\* last(count): span(data() + (size() - count), count)
span_last_from_data(s, count) ==
    {span(p, count) : p \in pointer_plus(s.m_data, count, array_of(s))}

span_last(s, count) ==
    {span(p, count) :
        p \in pointer_plus(s.m_data, size_t_minus(s.m_size, count),
                           array_of(s))}

\* subspan(offset, count):
\* span(data() + offset, count == dynamic_extent ? size() - offset : count)
span_subspan_clamped(s, offset, count) ==
    {span(p, IF count = dynamic_extent
             THEN (IF size_t_le(offset, s.m_size) THEN s.m_size - offset
                                                  ELSE 0)
             ELSE count) :
        p \in pointer_plus(s.m_data, offset, array_of(s))}

span_subspan(s, offset, count) ==
    {span(p, IF count = dynamic_extent
             THEN size_t_minus(s.m_size, offset)
             ELSE count) :
        p \in pointer_plus(s.m_data, offset, array_of(s))}

\* span(): m_data(nullptr), m_size(0); or span(arr) over an array.
SpanInit ==
    /\ Unused_not_pvars
    /\ sp_s \in {span(nullptr, 0)} \cup {span(<<0>>, n) : n \in 0..MaxSize}
    /\ sp_call = [op |-> "call"]

First(count) ==
    /\ sp_call.op = "call"
    /\ \E sub \in span_first(sp_s, count) :
           sp_call' = [op |-> "first", count |-> count, sub |-> sub]
    /\ UNCHANGED <<sp_s, not_pvars>>

Last(count) ==
    /\ sp_call.op = "call"
    /\ \E sub \in span_last(sp_s, count) :
           sp_call' = [op |-> "last", count |-> count, sub |-> sub]
    /\ UNCHANGED <<sp_s, not_pvars>>

\* subspan(offset, count); subspan(offset) is subspan(offset, dynamic_extent).
Subspan(offset, count) ==
    /\ sp_call.op = "call"
    /\ \E sub \in span_subspan(sp_s, offset, count) :
           sp_call' = [op |-> "subspan", offset |-> offset, count |-> count,
                       sub |-> sub]
    /\ UNCHANGED <<sp_s, not_pvars>>

SpanNext ==
    \/ \E count \in Size_T : First(count)
    \/ \E count \in Size_T : Last(count)
    \/ \E offset \in Size_T, count \in Size_T : Subspan(offset, count)

SpecSpan == SpanInit /\ [][SpanNext]_vars
\* The span ending at s.data() + n, for a span s of size n.
span_end(s) == IF s.m_data = nullptr THEN nullptr
               ELSE <<s.m_data[1] + s.m_size>>

\* The pointer k elements after s.data(), inside the span.
span_at(s, k) == IF s.m_data = nullptr THEN nullptr ELSE <<s.m_data[1] + k>>

\* C24: for a span s of size n and count <= n, first(count) is the span of
\* size count starting at s.data(), last(count) is the span of size count
\* ending at s.data() + n, subspan(offset, count) with offset + count <= n is
\* the span of size count starting at s.data() + offset, and subspan(offset)
\* has size n - offset; a zero count gives an empty span, also on an empty
\* span.
C24_SubviewsInRange ==
    /\ (sp_call.op = "first" /\ size_t_le(sp_call.count, sp_s.m_size))
           => /\ sp_call.sub = span(sp_s.m_data, sp_call.count)
              /\ (sp_call.count = 0 => sp_call.sub.m_size = 0)
    /\ (sp_call.op = "last" /\ size_t_le(sp_call.count, sp_s.m_size))
           => /\ sp_call.sub.m_size = sp_call.count
              /\ span_end(sp_call.sub) = span_end(sp_s)
              /\ (sp_call.count = 0 => sp_call.sub.m_size = 0)
    /\ (/\ sp_call.op = "subspan"
        /\ sp_call.count # dynamic_extent
        /\ sp_call.offset >= 0
        /\ sp_call.count >= 0
        /\ sp_call.offset + sp_call.count <= sp_s.m_size)
           => /\ sp_call.sub = span(span_at(sp_s, sp_call.offset),
                                    sp_call.count)
              /\ (sp_call.count = 0 => sp_call.sub.m_size = 0)
    /\ (/\ sp_call.op = "subspan"
        /\ sp_call.count = dynamic_extent
        /\ size_t_le(sp_call.offset, sp_s.m_size))
           => sp_call.sub = span(span_at(sp_s, sp_call.offset),
                                 sp_s.m_size - sp_call.offset)

\* last(count) with 0 < count < n was called on a span of n elements.
C24_Witness ==
    /\ sp_call.op = "last"
    /\ sp_call.count > 0
    /\ sp_call.count < sp_s.m_size
    /\ sp_call.sub.m_data = <<sp_s.m_size - sp_call.count>>

\* The subview lies inside the parent range [data(), data() + n).
inside_parent(s, sub) ==
    IF s.m_data = nullptr
    THEN sub = span(nullptr, 0)
    ELSE /\ sub.m_data # nullptr
         /\ sub.m_size >= 0
         /\ sub.m_data[1] >= s.m_data[1]
         /\ sub.m_data[1] + sub.m_size <= s.m_data[1] + s.m_size

\* C30: the subviews check no bounds and compute sizes in size_t: first,
\* last and subspan stay inside the parent range whenever count <= n (for
\* subspan, offset <= n and count <= n - offset); first(count) has size count
\* whatever count is; subspan(offset) has size n - offset modulo 2^64, which
\* is at most n exactly when offset <= n.
C30_SubviewsUnchecked ==
    /\ (/\ sp_call.op \in {"first", "last"}
        /\ size_t_le(sp_call.count, sp_s.m_size))
           => inside_parent(sp_s, sp_call.sub)
    /\ (sp_call.op \in {"first", "last"})
           => sp_call.sub.m_size = sp_call.count
    /\ (/\ sp_call.op = "subspan"
        /\ size_t_le(sp_call.offset, sp_s.m_size)
        /\ size_t_le(sp_call.count, sp_s.m_size - sp_call.offset))
           => inside_parent(sp_s, sp_call.sub)
    /\ (sp_call.op = "subspan" /\ sp_call.count = dynamic_extent)
           => /\ sp_call.sub.m_size = sp_s.m_size - sp_call.offset
              /\ (size_t_le(sp_call.offset, sp_s.m_size)
                      => inside_parent(sp_s, sp_call.sub))
              /\ (size_t_le(sp_call.sub.m_size, sp_s.m_size)
                      <=> size_t_le(sp_call.offset, sp_s.m_size))

\* subspan(n + 1) on a span of n elements gave a span of SIZE_MAX elements.
C30_Witness ==
    /\ sp_call.op = "subspan"
    /\ sp_call.count = dynamic_extent
    /\ sp_call.offset = sp_s.m_size + 1
    /\ sp_call.sub.m_size = dynamic_extent

----------------------------------------------------------------------------
\* Dilithium_Common_Symmetric_Primitives::XOF

XofType == {"k128", "k256"}

\* uint16_t nonces: one with only its low byte set, one with only its high.
Dilithium_Nonces == {1, 256}

\* static_cast<uint8_t>(x)
uint8_t(x) == x % 256

\* x >> 8
shift_right_8(x) == x \div 256

\* store_le(nonce, out): the low byte first.
store_le(x) == <<uint8_t(x), uint8_t(shift_right_8(x))>>

\* The lambda choosing the XOF by type.
xof_type(type) == IF type = "k128" THEN "SHAKE-128" ELSE "SHAKE-256"

\* HEAD: create_or_throw(xof_type), update(seed), update(nonce_buffer).
Dilithium_XOF_HEAD(type, seed, nonce) ==
    [outcome |-> "ok",
     obj |-> XOF_update(XOF_update(XOF_create(xof_type(type)), seed),
                        store_le(nonce))]

\* The backport: input = seed | uint8(nonce) | uint8(nonce >> 8).
Dilithium_XOF_backport_input(seed, nonce) ==
    (seed \o <<uint8_t(nonce)>>) \o <<uint8_t(shift_right_8(nonce))>>

\* The backport side of the conflict stops after it has built input; what
\* follows it in the file is the end of HEAD's lambda and HEAD's body, which
\* name xof_type, a name this side does not declare, and never use input:
\* the function is ill-formed and no build has it.
Dilithium_XOF_backport(type, seed, nonce) ==
    LET input == Dilithium_XOF_backport_input(seed, nonce)
    IN  [outcome |-> "ill_formed"]

Dilithium_XOF(version, type, seed, nonce) ==
    IF version = "HEAD" THEN Dilithium_XOF_HEAD(type, seed, nonce)
                        ELSE Dilithium_XOF_backport(type, seed, nonce)

DilithiumInit ==
    /\ Unused_not_dvars
    /\ dx_version \in {"HEAD", "backport"}
    /\ dx_xofs = <<>>
    /\ dx_call = [op |-> "none"]

\* XOF(type, seed, nonce): the unique_ptr returned goes to the caller, who
\* keeps it next to the objects of earlier calls.
Dilithium_XOF_Call(type, seed, nonce) ==
    /\ Len(dx_xofs) < MaxObj
    /\ LET r == Dilithium_XOF(dx_version, type, seed, nonce)
       IN  IF r.outcome = "ok"
           THEN /\ dx_xofs' = Append(dx_xofs,
                                     [type |-> type, seed |-> seed,
                                      nonce |-> nonce, xof |-> r.obj,
                                      stream |-> <<>>])
                /\ dx_call' = [op |-> "XOF", outcome |-> "ok"]
           ELSE /\ dx_xofs' = dx_xofs
                /\ dx_call' = [op |-> "XOF", outcome |-> r.outcome]
    /\ UNCHANGED <<dx_version, not_dvars>>

\* xof->output(n) through one of the objects held; stream collects what the
\* caller has read from it.
Dilithium_Output(h, n) ==
    /\ h \in DOMAIN dx_xofs
    /\ Len(dx_xofs[h].stream) + n <= MaxLen
    /\ LET r == XOF_output(dx_xofs[h].xof, n)
       IN  /\ dx_xofs' = [dx_xofs EXCEPT ![h].xof = r.obj,
                                         ![h].stream = @ \o r.out]
           /\ dx_call' = [op |-> "output", outcome |-> r.outcome]
    /\ UNCHANGED <<dx_version, not_dvars>>

DilithiumNext ==
    \/ \E type \in XofType, seed \in Seeds, nonce \in Dilithium_Nonces :
           Dilithium_XOF_Call(type, seed, nonce)
    \/ \E h \in 1..MaxObj, n \in Read_Lengths : Dilithium_Output(h, n)

SpecDilithium == DilithiumInit /\ [][DilithiumNext]_vars

\* C25: on either side of the merge conflict every call of XOF returns an
\* object of its own, SHAKE-128 for k128 and SHAKE-256 for k256, that has
\* absorbed exactly the seed followed by the low and then the high byte of
\* the nonce; what is read from it is the stream of (type, seed, nonce) from
\* its start, whatever was done with the other objects.
C25_DilithiumXOF ==
    /\ dx_call.op = "XOF" => dx_call.outcome = "ok"
    /\ \A h \in DOMAIN dx_xofs :
           LET o == dx_xofs[h]
               alg == IF o.type = "k128" THEN "SHAKE-128" ELSE "SHAKE-256"
               absorbed == o.seed \o <<o.nonce % 256, o.nonce \div 256>>
           IN  /\ o.xof.alg = alg
               /\ o.xof.input = absorbed
               /\ o.xof.pos = Len(o.stream)
               /\ o.stream = Keystream(alg, absorbed, 0, Len(o.stream))

----------------------------------------------------------------------------
\* The variant polyfill: holds_alternative, visit

\* The alternatives Ts... of the variant, and the variants over them.
Alternatives == {"A", "B", "C"}

Variants == [type : Alternatives, value : 0..MaxData]

\* Visitors: callables on the held alternative.
Visitors == {"type_of", "value_of"}

invoke(vis, v) == IF vis = "type_of" THEN v.type ELSE v.value

\* boost::get<T>(&v): a pointer to the value if v holds a T, else nullptr.
boost_get(T, v) == IF v.type = T THEN <<v.value>> ELSE nullptr

\* part_004: return boost::get<T>(&v) != nullptr;
part_004_holds_alternative(T, v) ==
    [next |-> "return", value |-> boost_get(T, v) # nullptr]

\* variant.h: return holds_alternative(v);
variant_h_holds_alternative(T, v) ==
    [next |-> "call", callee |-> "holds_alternative"]

\* variant.h: return visit(vis, vars...);
variant_h_visit(vis, v) ==
    [next |-> "call", callee |-> "visit"]

\* What the compiler makes of a helper whose body names the helper itself
\* (the inner holds_alternative(v) gives no T to deduce; the inner visit is
\* used before its return type is deduced): it rejects the instantiation, or
\* it binds the inner call to the helper.
Instantiations == {"ill_formed", "self"}

VariantInit ==
    /\ Unused_not_avars
    /\ pv_header \in {"variant.h", "part_004"}
    /\ pv_v \in Variants
    /\ pv_stack = <<>>
    /\ pv_call = [op |-> "none"]

\* Botan::holds_alternative<T>(v)
Holds_Alternative(T, how) ==
    /\ pv_call.op = "none"
    /\ LET body == IF pv_header = "part_004"
                   THEN part_004_holds_alternative(T, pv_v)
                   ELSE variant_h_holds_alternative(T, pv_v)
       IN  IF body.next = "return"
           THEN /\ pv_call' = [op |-> "holds_alternative", T |-> T,
                               outcome |-> "returned", value |-> body.value]
                /\ pv_stack' = <<>>
           ELSE IF how = "ill_formed"
           THEN /\ pv_call' = [op |-> "holds_alternative", T |-> T,
                               outcome |-> "ill_formed"]
                /\ pv_stack' = <<>>
           ELSE /\ pv_call' = [op |-> "holds_alternative", T |-> T,
                               outcome |-> "running"]
                /\ pv_stack' = <<body.callee>>
    /\ UNCHANGED <<pv_header, pv_v, not_avars>>

\* Botan::visit(vis, v); part_004 declares no visit.
Visit(vis, how) ==
    /\ pv_call.op = "none"
    /\ IF pv_header = "part_004" \/ how = "ill_formed"
       THEN /\ pv_call' = [op |-> "visit", vis |-> vis,
                           outcome |-> "ill_formed"]
            /\ pv_stack' = <<>>
       ELSE /\ pv_call' = [op |-> "visit", vis |-> vis,
                           outcome |-> "running"]
            /\ pv_stack' = <<variant_h_visit(vis, pv_v).callee>>
    /\ UNCHANGED <<pv_header, pv_v, not_avars>>

\* The innermost frame runs its body: the call of the helper itself.
Helper_Calls_Itself ==
    /\ pv_call.op # "none"
    /\ pv_call.outcome = "running"
    /\ Len(pv_stack) < MaxDepth
    /\ pv_stack' = Append(pv_stack, pv_stack[Len(pv_stack)])
    /\ UNCHANGED <<pv_header, pv_v, pv_call, not_avars>>

\* No frame has returned and none ever will.
Helper_Never_Returns ==
    /\ pv_call.op # "none"
    /\ pv_call.outcome = "running"
    /\ Len(pv_stack) = MaxDepth
    /\ pv_call' = [pv_call EXCEPT !.outcome = "no_return"]
    /\ UNCHANGED <<pv_header, pv_v, pv_stack, not_avars>>

VariantNext ==
    \/ \E T \in Alternatives, how \in Instantiations : Holds_Alternative(T, how)
    \/ \E vis \in Visitors, how \in Instantiations : Visit(vis, how)
    \/ Helper_Calls_Itself
    \/ Helper_Never_Returns

SpecVariant == VariantInit /\ [][VariantNext]_vars

\* C26: the helpers of the variant polyfill return on every input and never
\* call themselves: holds_alternative<T>(v) returns whether v holds a T, and
\* visit(vis, v) returns vis applied to the held alternative.
C26_VariantHelpersTerminate ==
    /\ Len(pv_stack) <= 1
    /\ pv_call.op # "none" => pv_call.outcome \in {"returned", "running"}
    /\ (pv_call.op = "holds_alternative" /\ pv_call.outcome = "returned")
           => pv_call.value = (pv_v.type = pv_call.T)
    /\ (pv_call.op = "visit" /\ pv_call.outcome = "returned")
           => pv_call.value = invoke(pv_call.vis, pv_v)

----------------------------------------------------------------------------
\* Post-handshake messages and the store

\* C27: received(Post_Handshake_Message_13) never touches the store: whether
\* it returns the message or throws unexpected_message, every slot, every
\* has_X() and handshake_finished() are after the call what they were before.
C27_PostHandshakeNotRecorded ==
    [][(last.op = "none" /\ last'.op = "received_post") =>
          /\ last'.outcome \in {"ok", "UnexpectedMessage"}
          /\ slots' = slots
          /\ \A s \in HasQueries : has_query(s)' = has_query(s)
          /\ handshake_finished' = handshake_finished]_vars

\* A post-handshake message was returned to the caller while the store held
\* messages but not the client's Finished.
C27_Witness ==
    /\ last.op = "received_post"
    /\ last.outcome = "ok"
    /\ last.value = last.msg
    /\ Stored(slots) # {}
    /\ ~has_client_finished

----------------------------------------------------------------------------
\* One stream per provider; PRF and the XOF stream

\* What a read of n bytes through a reference XOF() returned gives on
\* provider p: every such reference is to the one member object.
MemberRead(p, n) ==
    IF family = "modern"
    THEN XOF_output(p.m_shake128, n).out
    ELSE AES_256_CTR_XOF_output(p.m_aes256_ctr_xof, n).out

\* What write_output of n bytes gives on the Kyber_XOF object x.
ObjectRead(x, n) ==
    IF ~x.held THEN <<>>
    ELSE IF family = "modern" THEN Kyber_Modern_XOF_write_output(x.obj, n).out
                              ELSE Kyber_90s_XOF_write_output(x.obj, n).out

\* C28: with the reference interface every XOF() call re-seeds and returns
\* the provider's one member object, so only the latest derivation's stream
\* exists: the call succeeds whatever derivation is under way (no lock, no
\* check), a read through any reference held, the first included, then gives
\* the stream of the latest seed and position from its start and not the
\* continuation of the earlier stream.
C28_OneStreamPerProvider ==
    [][(variant = "reference" /\ kcall.op = "none" /\ kcall'.op = "XOF") =>
          /\ kcall'.outcome = "ok"
          /\ deriv'.active
          /\ \A n \in Read_Lengths :
                 /\ MemberRead(provider', n)
                        = ReferenceStream(family, deriv'.seed, deriv'.pos, n)
                 /\ (/\ deriv.active
                     /\ deriv.stream # <<>>
                     /\ deriv.seed = deriv'.seed
                     /\ deriv.pos # deriv'.pos)
                        => MemberRead(provider', n) # MemberRead(provider, n)]_vars

\* After bytes had been read for an earlier seed or position, XOF() was
\* called again and the first read after it has been made.
C28_Witness ==
    /\ variant = "reference"
    /\ kcall.op = "output"
    /\ deriv.active /\ deriv.dirty /\ ~deriv.again
    /\ deriv.stream = kcall.out
    /\ deriv.stream = ReferenceStream(family, deriv.seed, deriv.pos,
                                      Len(deriv.stream))

\* C29: PRF does not touch the XOF stream.  The 90s PRF works on
\* m_aes256_ctr_prf, not on the XOF's cipher object, and the modern PRF on a
\* local SHAKE-256: a call of PRF leaves the XOF member and any Kyber_XOF
\* object as they were, so the bytes read after it are the bytes that would
\* have been read without it.
C29_PRFLeavesXOFStream ==
    [][(kcall.op = "none" /\ kcall'.op = "PRF") =>
          /\ ProviderXOF(provider') = ProviderXOF(provider)
          /\ kxof' = kxof
          /\ deriv' = deriv
          /\ \A n \in Read_Lengths :
                 /\ MemberRead(provider', n) = MemberRead(provider, n)
                 /\ ObjectRead(kxof', n) = ObjectRead(kxof, n)]_vars

\* PRF returned in the middle of a derivation: bytes of the XOF stream had
\* been read before it and more can be read after it.
C29_Witness ==
    /\ kcall.op = "PRF" /\ kcall.outcome = "ok"
    /\ deriv.active
    /\ deriv.stream # <<>>
    /\ Len(deriv.stream) < MaxLen

====
